---- MODULE Spec2Model ----
(***************************************************************************)
(* Query-processing pipeline with provider failover                        *)
(* (src/src/orchestrator.py, src/src/integrations/*.py, src/api.py).       *)
(*                                                                         *)
(* One shared Orchestrator holds the ring ai_models and the labels ai_name *)
(* and current_ai.  Each task runs process_query; a task's position is pc  *)
(* and, inside _safe_ai_call, the frame rc.  Python statements that touch  *)
(* the shared ring are separate steps, because api.py runs every request   *)
(* on its own thread and event loop.                                       *)
(***************************************************************************)
EXTENDS Integers, Sequences, FiniteSets, TLC

\* Number of request threads of the concurrent specification.
NumTasks == 2

\* Longest keyword list given to search, longest model text in segments.
MaxKeywords == 4
MaxSegments == 3

Tasks == 1..NumTasks

\* ------------------------------------------------------------------ values

Range(f) == {f[i] : i \in DOMAIN f}

\* Orchestrator.__init__ tries the providers in this order.
ProviderPriority == <<"Gemini", "Groq", "OpenRouter">>

ProviderNames == {ProviderPriority[i] : i \in 1..Len(ProviderPriority)}

\* The adapter object registered under a ring name.
AdapterOf(name) ==
    CASE name = "Gemini" -> "GeminiIntegration"
      [] name = "Groq" -> "GroqIntegration"
      [] name = "OpenRouter" -> "OpenRouterIntegration"
      [] OTHER -> "None"

\* A query text, as the code reads it: has = the tested substrings its
\* lower-cased text contains, long = its words of more than 3 characters.
Query(text, has, long) == [text |-> text, has |-> has, long |-> long]

Queries ==
    { Query("What is NDVI?", {}, <<"What", "NDVI?">>),
      Query("What's the weather in Paris right now?", {"weather"},
            <<"What's", "weather", "Paris", "right", "now?">>),
      Query("What are the latest crop prices?", {"latest", "crop"},
            <<"What", "latest", "crop", "prices?">>),
      Query("Generate a script for satellite imagery of Ethiopian farms",
            {"generate", "script", "satellite", "farm"},
            <<"Generate", "script", "satellite", "imagery", "Ethiopian", "farms">>) }

NoQuery == Query("", {}, <<>>)

Contains(q, word) == word \in q.has

ContainsAny(q, words) == \E w \in words : Contains(q, w)

\* searchKeywords as the analysis holds it: a list, JSON null, or no such key.
KwList(items) == [kind |-> "list", items |-> items]
KwNull == [kind |-> "null", items |-> <<>>]
KwMissing == [kind |-> "missing", items |-> <<>>]

Analysis(web, weather, agri, code, codeType, location, kw) ==
    [ needsWebSearch |-> web, needsWeatherData |-> weather,
      needsAgriculturalData |-> agri, needsCodeGeneration |-> code,
      codeType |-> codeType, location |-> location, searchKeywords |-> kw ]

NoAnalysis == [none |-> TRUE]

\* The analyses a model may emit (the JSON object of the analyze prompt).
\* codeType varies where needsCodeGeneration is set, searchKeywords where
\* needsWebSearch is set: nothing reads them otherwise.
CodeAnalyses ==
    { Analysis(e, e, e, TRUE, ct, "Paris", KwList(<<"k1", "k2">>)) :
        e \in BOOLEAN, ct \in {"pyqgis", "python", "null"} }

DataAnalyses ==
    { Analysis(TRUE, w, a, FALSE, "null", loc, kw) :
        w \in BOOLEAN, a \in BOOLEAN, loc \in {"Paris", "null"},
        kw \in {KwList(<<"k1", "k2">>), KwNull, KwMissing} }
    \cup
    { Analysis(FALSE, w, a, FALSE, "null", loc, KwList(<<>>)) :
        w \in BOOLEAN, a \in BOOLEAN, loc \in {"Paris", "null", ""} }

Analyses == CodeAnalyses \cup DataAnalyses

AlwaysHasLocation(a) == TRUE
\* dict.get(key) truthiness of the location field: null and "" are falsy.
HasLocation(a) == a.location \notin {"null", ""}

VARIABLES
    ai_models,      \* the ring: sequence of provider names, position 0 first
    ai_name,        \* label of the current provider
    current_ai,     \* adapter object of the current provider
    mocked,         \* ring names whose adapter a test replaced by a failing double
    web_cfg,        \* WebSearchIntegration: which tiers are configured
    agri_cfg,       \* RegionalDataIntegration: agriculture API configured?
    environ,        \* the environment __init__ reads: keys set, adapters that
                    \* construct, production flag
    built,          \* position of Orchestrator.__init__, "ok" or "raised" at its end
    probe,          \* the last direct call of a client or adapter function:
                    \* its inputs and what it gave
    boot,           \* api.py: the global `orchestrator` slot and each thread's
                    \* position in get_orchestrator
    pc,             \* per task: position in process_query
    query,          \* per task: the query text (as the substrings it contains)
    rc,             \* per task: frame of the running _safe_ai_call
    analysis,       \* per task: result of the analyze ring call
    sources,        \* per task: aggregated_data['sources']
    result,         \* per task: what process_query returned or raised
    log,            \* per task (history): ring calls and client calls, in order
    last,           \* per task (history): summary of the last finished ring call
    lastServed,     \* (history) provider whose result the last successful ring call returned
    calls,          \* per task (history): the providers invoked for this query
                    \* and whether each returned, in order
    http            \* per task: the /query handler around process_query: has
                    \* future.result timed out, and the response sent

vars == << ai_models, ai_name, current_ai, mocked, web_cfg, agri_cfg, environ, built,
           probe, boot,
           pc, query, rc, analysis, sources, result, log, last, lastServed, calls,
           http >>

shared == << ai_models, ai_name, current_ai >>
config == << mocked, web_cfg, agri_cfg, environ, built, probe, boot >>

\* ------------------------------------------------------- provider adapters

Ret(v) == [ok |-> TRUE, val |-> v, err |-> "none"]
Raised(e) == [ok |-> FALSE, val |-> [none |-> TRUE], err |-> e]

\* Values a capability returns.  `by` tags the adapter that produced the
\* value.  An analysis is the model's reply ("model"), or the default analysis
\* because the model call failed ("call_failed") or its reply did not parse
\* ("unparseable").  An apology is the canned string returned when the model
\* call failed.
AnalysisValue(name, a, cause) ==
    [kind |-> "analysis", by |-> name, body |-> a, cause |-> cause]
Text(name, method) == [kind |-> "text", by |-> name, method |-> method]
Apology(name, method) == [kind |-> "apology", by |-> name, method |-> method]

Prefix(s, n) == SubSeq(s, 1, IF Len(s) < n THEN Len(s) ELSE n)

\* The default analysis of analyze_query: literal keyword matching on the query.
DefaultAnalysis(q) ==
    Analysis(
        ContainsAny(q, {"latest", "recent", "current"}),
        ContainsAny(q, {"weather", "temperature", "rain", "forecast", "climate"}),
        ContainsAny(q, {"crop", "farm", "agriculture", "soil", "planting"}),
        ContainsAny(q, {"code", "script", "generate", "python", "pyqgis"}),
        IF ContainsAny(q, {"pyqgis", "qgis"}) THEN "pyqgis"
        ELSE IF Contains(q, "python") THEN "python" ELSE "null",
        "null",
        KwList(Prefix(q.long, 5)))

\* The text of a model reply, by the shapes the parser tells apart:
\*   "object"   a bare JSON object            {"intent": ...}
\*   "fenced"   a JSON object inside prose or a markdown fence
\*   "array"    a non-empty JSON array of scalars   ["maize", "wheat"]
\*   "falsy"    JSON null, 0, "" or []
\*   "garbage"  text that holds no JSON
\*   "empty"    the empty string
\* body is the object the text carries, if it carries one.
Reply(shape, body) == [shape |-> shape, body |-> body]

Replies(A) ==
    {Reply(sh, a) : sh \in {"object", "fenced"}, a \in A}
    \cup {Reply(sh, NoAnalysis) : sh \in {"array", "falsy", "garbage", "empty"}}

\* Python values the parser yields: a non-empty dict, a non-empty list, a
\* falsy value ({} included), or None.
PyDict(body) == [ty |-> "dict", val |-> body]
PyList == [ty |-> "list", val |-> [nonobject |-> "list"]]
PyFalsy == [ty |-> "falsy", val |-> NoAnalysis]
PyNone == [ty |-> "None", val |-> NoAnalysis]

Truthy(v) == v.ty \in {"dict", "list"}

\* json.loads(text) first, whatever JSON value the text is; then the object
\* found by the regex \{[\s\S]*\}; then {}.
safe_json_loads(r) ==
    CASE r.shape \in {"object", "fenced"} -> PyDict(r.body)
      [] r.shape = "array" -> PyList
      [] r.shape = "falsy" -> PyFalsy
      [] OTHER -> PyFalsy

\* The object found by the regex, parsed by safe_json_loads; None without one.
safe_extract_json_from_text(r) ==
    IF r.shape \in {"object", "fenced"}
    THEN safe_json_loads(Reply("object", r.body))
    ELSE PyNone

\* A dict is a mapping: .get works on it.
IsMapping(a) == "needsWebSearch" \in DOMAIN a

\* A model text as the extractor sees it, a sequence of segments:
\*   "prose"      words without braces           Sure, here it is:
\*   "fence"      a markdown fence line          ```json
\*   "object"     a well-formed JSON object      {"intent": "x"}
\*   "commas"     an object with a trailing comma  {"intent": "x",}
\*   "group"      braces around non-JSON         {see the docs}
\*   "truncated"  an object cut before its end   {"intent": "x
\* body names the object an "object" or "commas" segment carries.
Segment(kind, body) == [kind |-> kind, body |-> body]

Segments ==
    {Segment(k, 0) : k \in {"prose", "fence", "group", "truncated"}}
    \cup {Segment(k, b) : k \in {"object", "commas"}, b \in {1, 2}}

Opens(seg) == seg.kind \in {"object", "commas", "group", "truncated"}
Closes(seg) == seg.kind \in {"object", "commas", "group"}

\* safe_json_loads on the regex match `span`: json.loads, then the same
\* regex and json.loads again, then json.loads with trailing commas
\* removed, then {}.
LoadSpan(span) ==
    IF Len(span) = 1 /\ span[1].kind \in {"object", "commas"}
    THEN PyDict(span[1].body)
    ELSE PyFalsy

\* safe_extract_json_from_text on a text of segments: re.search of
\* \{[\s\S]*\} matches from the first { to the last } of the text.
ExtractFromText(text) ==
    LET opens == {i \in DOMAIN text : Opens(text[i])}
        closes == {i \in DOMAIN text : Closes(text[i])}
    IN IF opens = {} \/ closes = {} THEN PyNone
       ELSE LET from == CHOOSE i \in opens : \A j \in opens : i <= j
                upto == CHOOSE i \in closes : \A j \in closes : j <= i
            IN IF upto < from THEN PyNone
               ELSE LoadSpan(SubSeq(text, from, upto))

\* GeminiIntegration.analyze_query on the reply r of the model: the first
\* truthy value of safe_extract_json_from_text, safe_json_loads, else the
\* default analysis.
analyze_query(name, q, r) ==
    LET extracted == safe_extract_json_from_text(r)
        loaded == safe_json_loads(r)
    IN IF Truthy(extracted) THEN AnalysisValue(name, extracted.val, "model")
       ELSE IF Truthy(loaded) THEN AnalysisValue(name, loaded.val, "model")
       ELSE AnalysisValue(name, DefaultAnalysis(q), "unparseable")

\* GeminiIntegration: every model call sits in try/except; a failed call or an
\* unparseable reply gives the default analysis (analyze_query) or a canned
\* apology string (synthesize_response, answer_directly), returned normally.
GeminiOutcomes(name, method, q, A) ==
    IF method = "analyze_query"
    THEN {Ret(analyze_query(name, q, r)) : r \in Replies(A)}
         \cup {Ret(AnalysisValue(name, DefaultAnalysis(q), "call_failed"))}
    ELSE {Ret(Text(name, method)), Ret(Apology(name, method))}

\* GroqIntegration and OpenRouterIntegration: a failed model call raises; an
\* unparseable analysis degrades to the default analysis.
RaisingOutcomes(name, method, q, A) ==
    IF method = "analyze_query"
    THEN {Ret(AnalysisValue(name, a, "model")) : a \in A}
         \cup {Ret(AnalysisValue(name, DefaultAnalysis(q), "unparseable")),
               Raised("provider call failed")}
    ELSE {Ret(Text(name, method)), Raised("provider call failed")}

\* The failing double the fallback tests install: every capability raises.
FailingAI(name, method) == {Raised("Simulated API failure")}

\* Outcomes of `await method(*args)` for the ring entry `name`.
CallOutcomes(name, method, q, A, mock) ==
    IF name \in mock THEN FailingAI(name, method)
    ELSE IF AdapterOf(name) = "GeminiIntegration" THEN GeminiOutcomes(name, method, q, A)
    ELSE RaisingOutcomes(name, method, q, A)

\* --------------------------------------------------------- data-source clients

\* An exception escaping a client call (the orchestrator guards each call
\* with `except Exception`).
ClientRaised == [raised |-> TRUE]

Envelope(success, source, mock) ==
    [raised |-> FALSE, success |-> success, source |-> source, mock |-> mock]

WebTiers == <<"poe", "duckduckgo", "wikipedia">>

\* What a direct call of a client function gave: the envelope returned (or
\* ClientRaised) and the requests it made, in order.
Outcome(envelope, requests) == [envelope |-> envelope, requests |-> requests]

mock_search_unflagged == Outcome(Envelope(TRUE, "mock", FALSE), <<>>)
\* WebSearchIntegration._mock_search: success: true, source 'mock', mock: true.
mock_search == Outcome(Envelope(TRUE, "mock", TRUE), <<>>)

\* search from tier i on: a tier is invoked if it is configured (cfg); a
\* _search_* method returns a success: true result (the tier is in yields)
\* or None, having caught every exception; the first result is returned, and
\* after the last tier the mock payload.  invoked: the tiers invoked so far.
RECURSIVE SearchFrom(_, _, _, _)
SearchFrom(i, cfg, yields, invoked) ==
    IF i > Len(WebTiers) THEN Outcome(mock_search.envelope, invoked)
    ELSE IF WebTiers[i] \notin cfg THEN SearchFrom(i + 1, cfg, yields, invoked)
    ELSE IF WebTiers[i] \in yields
         THEN Outcome(Envelope(TRUE, WebTiers[i], FALSE), Append(invoked, WebTiers[i]))
    ELSE SearchFrom(i + 1, cfg, yields, Append(invoked, WebTiers[i]))

SearchEveryTier(cfg, yields) ==
    LET all == SelectSeq(WebTiers, LAMBDA w : w \in cfg)
        hits == SelectSeq(all, LAMBDA w : w \in yields)
    IN Outcome(IF hits = <<>> THEN mock_search.envelope
               ELSE Envelope(TRUE, hits[1], FALSE), all)
\* WebSearchIntegration.search(query, keywords).
search(cfg, yields) == SearchFrom(1, cfg, yields, <<>>)

\* The query string a tier searches with, as a sequence of words: q is the
\* plain query, kw the keywords.  _search_poe_bot and _search_duckduckgo
\* append keywords[:3]; _search_wikipedia is called without the keywords
\* and _mock_search with the query alone.
TierQuery(tier, q, kw) ==
    IF tier \in {"poe", "duckduckgo"} /\ kw # <<>>
    THEN <<q>> \o SubSeq(kw, 1, IF Len(kw) < 3 THEN Len(kw) ELSE 3)
    ELSE <<q>>

\* The results search can return under the configuration cfg.
SearchOutcomes(cfg) == {search(cfg, yields).envelope : yields \in SUBSET Range(WebTiers)}

\* Replies of the geocoding API and of the forecast API, by the cases
\* get_weather_data tells apart.
GeocodeReplies ==
    {"found", "no_results", "request_error", "http_error", "unparseable", "bad_format"}
ForecastReplies ==
    {"complete", "request_error", "http_error", "unparseable", "no_current", "incomplete"}

\* RegionalDataIntegration._geocode_location: the coordinates, or ValueError
\* for every failure.
geocode_location(g) ==
    CASE g = "found" -> Ret([coords |-> TRUE])
      [] g = "no_results" -> Raised("Location not found")
      [] g = "request_error" -> Raised("Geocoding request failed")
      [] g = "http_error" -> Raised("Geocoding HTTP error")
      [] g = "bad_format" -> Raised("Invalid geocoding response format")
      [] OTHER -> Raised("Geocoding failed")

\* The success: false envelope of get_weather_data, with its error and
\* message fields.
WeatherFailure(err, requests) ==
    [envelope |-> Envelope(FALSE, "none", FALSE), requests |-> requests,
     error |-> err, message |-> <<"Unable to fetch weather data", err>>]

WeatherRaisesOnFailure(g, f) ==
    IF g = "found" /\ f = "complete"
    THEN [envelope |-> Envelope(TRUE, "Open-Meteo", FALSE),
          requests |-> <<"geocoding", "forecast">>, error |-> "none", message |-> <<>>]
    ELSE [envelope |-> ClientRaised, requests |-> <<"geocoding">>,
          error |-> "none", message |-> <<>>]
\* RegionalDataIntegration.get_weather_data: geocode, fetch the forecast,
\* build the envelope, all inside one try; `except Exception` returns the
\* success: false envelope.
get_weather_data(g, f) ==
    LET coords == geocode_location(g) IN
    IF ~coords.ok THEN WeatherFailure(coords.err, <<"geocoding">>)
    ELSE CASE f = "complete" ->
                [envelope |-> Envelope(TRUE, "Open-Meteo", FALSE),
                 requests |-> <<"geocoding", "forecast">>,
                 error |-> "none", message |-> <<>>]
           [] f = "unparseable" ->
                WeatherFailure("Failed to parse weather API response",
                               <<"geocoding", "forecast">>)
           [] f = "no_current" ->
                WeatherFailure("Invalid weather API response format",
                               <<"geocoding", "forecast">>)
           [] f = "incomplete" ->
                WeatherFailure("KeyError", <<"geocoding", "forecast">>)
           [] OTHER -> WeatherFailure(f, <<"geocoding", "forecast">>)

\* The envelopes get_weather_data can return.
WeatherOutcomes ==
    {get_weather_data(g, f).envelope : g \in GeocodeReplies, f \in ForecastReplies}

\* ---- get_weather_data, the forecast arrays (hourly, daily, rainfall totals)

\* range(min(24, len(hourly['time']))) and range(min(7, len(daily['time']))).
HourlyWindow == 24
DailyWindow == 7

\* The hourly series read with hourly[key][i], and those read with
\* hourly.get(key, [0])[i] if i < len(hourly.get(key, [])) else 0.
HourlyRequired == << "temperature_2m", "weather_code", "relative_humidity_2m" >>
HourlyGuarded ==
    {"precipitation", "precipitation_probability", "rain", "showers", "snowfall",
     "wind_speed_10m"}
HourlyNames == Range(HourlyRequired) \cup HourlyGuarded

\* The daily series, all read with the guarded expression.
DailyNames ==
    {"temperature_2m_max", "temperature_2m_min", "precipitation_sum", "rain_sum",
     "showers_sum", "snowfall_sum", "precipitation_hours",
     "precipitation_probability_max", "weather_code"}

\* A series of the payload by its shape: key absent, one value fewer than
\* the time array, or as long as the time array.
Shapes == {"missing", "short", "full"}

\* The i-th value of a series (each series has values of its own).
SeriesValue(name, i) ==
    i * (CASE name = "precipitation" -> 1
           [] name = "rain" -> 2
           [] name = "showers" -> 3
           [] OTHER -> 5)

\* The hourly or the daily object of the payload: time says whether it has
\* a 'time' array, n is the length of that array, shapes[key] the shape of
\* each series.
Payload(time, n, shapes) == [time |-> time, n |-> n, shapes |-> shapes]

HasKey(p, name) == p.shapes[name] # "missing"

\* p[name], for a key that is present.
Item(p, name) ==
    LET len == IF p.shapes[name] = "full" THEN p.n
               ELSE IF p.n > 0 THEN p.n - 1 ELSE 0
    IN [i \in 1..len |-> SeriesValue(name, i)]

\* p.get(name, default)
GetOr(p, name, default) == IF HasKey(p, name) THEN Item(p, name) ELSE default

\* p.get(name, [0])[i] if i < len(p.get(name, [])) else 0, for the i-th
\* entry counted from 1.
Guarded(p, name, i) ==
    IF i <= Len(GetOr(p, name, <<>>)) THEN GetOr(p, name, <<0>>)[i] ELSE 0

\* p[name][i]: KeyError without the key, IndexError past the end.
Unguarded(p, name, i) ==
    IF ~HasKey(p, name) THEN Raised("KeyError")
    ELSE IF i > Len(Item(p, name)) THEN Raised("IndexError")
    ELSE Ret(Item(p, name)[i])

\* Number of entries the hourly loop builds.
HourlyCount(h) == IF h.n < HourlyWindow THEN h.n ELSE HourlyWindow

\* The exception the hourly loop raises, "none" if it completes: the first
\* unguarded read that fails, entries in order, keys in the order read.
HourlyError(h) ==
    LET bad == {i \in 1..HourlyCount(h) :
                  \E k \in DOMAIN HourlyRequired : ~Unguarded(h, HourlyRequired[k], i).ok}
    IN IF bad = {} THEN "none"
       ELSE LET i == CHOOSE x \in bad : \A y \in bad : x <= y
                k == CHOOSE x \in DOMAIN HourlyRequired :
                        /\ ~Unguarded(h, HourlyRequired[x], i).ok
                        /\ \A y \in 1..(x - 1) : Unguarded(h, HourlyRequired[y], i).ok
            IN Unguarded(h, HourlyRequired[k], i).err

\* hourly_forecast, when the loop completes.
HourlyForecast(h) ==
    [i \in 1..HourlyCount(h) |->
        [name \in HourlyNames |->
            IF name \in Range(HourlyRequired) THEN Unguarded(h, name, i).val
            ELSE Guarded(h, name, i)]]

\* daily_forecast: empty unless daily has a 'time' array.
DailyForecast(d) ==
    IF ~d.time THEN <<>>
    ELSE [i \in 1..(IF d.n < DailyWindow THEN d.n ELSE DailyWindow) |->
            [name \in DailyNames |-> Guarded(d, name, i)]]

RECURSIVE SumSkippingFirst(_, _)
SumSkippingFirst(entries, field) ==
    IF Len(entries) <= 1 THEN 0
    ELSE entries[Len(entries)][field]
         + SumSkippingFirst(SubSeq(entries, 1, Len(entries) - 1), field)
\* sum([h.get(field, 0) for h in entries])
RECURSIVE SumOf(_, _)
SumOf(entries, field) ==
    IF entries = <<>> THEN 0
    ELSE entries[Len(entries)][field]
         + SumOf(SubSeq(entries, 1, Len(entries) - 1), field)

\* The rainfall totals over a list of hourly entries.
Totals(entries) ==
    [ precipitation |-> SumOf(entries, "precipitation"),
      rain |-> SumOf(entries, "rain"),
      showers |-> SumOf(entries, "showers") ]

\* get_weather_data from the hourly loop to the totals, on a payload that
\* has 'current' and 'hourly': the forecasts and totals of the success
\* envelope, or the success: false envelope of `except Exception` when a
\* read raised.
Forecast(h, d) ==
    IF HourlyError(h) # "none"
    THEN [ envelope |-> Envelope(FALSE, "none", FALSE), error |-> HourlyError(h),
           hourly |-> <<>>, daily |-> <<>>,
           today |-> Totals(<<>>), next_24h |-> Totals(<<>>) ]
    ELSE LET hourly == HourlyForecast(h) IN
         [ envelope |-> Envelope(TRUE, "Open-Meteo", FALSE), error |-> "none",
           hourly |-> hourly, daily |-> DailyForecast(d),
           today |-> Totals(SubSeq(hourly, 1,
                                   IF Len(hourly) < HourlyWindow THEN Len(hourly)
                                   ELSE HourlyWindow)),
           next_24h |-> Totals(hourly) ]

\* The payloads explored.  Hourly: a time array of up to a day and an hour,
\* at most one of the unguarded series deficient, precipitation, rain and
\* showers of any shape, the other guarded series of one shape.  Daily:
\* absent or without 'time', or a time array of up to eight days with all
\* series of one shape.
HourCounts == {0, 1, 2, HourlyWindow - 1, HourlyWindow, HourlyWindow + 1}
DayCounts == {0, 1, DailyWindow, DailyWindow + 1}

HourlyPayloads ==
    { Payload(TRUE, n, sh) :
        n \in HourCounts,
        sh \in { f \in [HourlyNames -> Shapes] :
                   /\ Cardinality({k \in DOMAIN HourlyRequired :
                                     f[HourlyRequired[k]] # "full"}) <= 1
                   /\ f["precipitation_probability"] = f["snowfall"]
                   /\ f["snowfall"] = f["wind_speed_10m"] } }

DailyPayloads ==
    { Payload(FALSE, 0, [name \in DailyNames |-> "missing"]) }
    \cup { Payload(TRUE, n, [name \in DailyNames |-> sh]) :
             n \in DayCounts, sh \in Shapes }

\* Replies of the agriculture API: JSON data, data that only the tolerant
\* parser reads, or a failure.
AgricultureReplies == {"data", "recoverable", "request_error", "http_error", "unparseable"}

\* RegionalDataIntegration._mock_agricultural_data.
mock_agricultural_data == Envelope(TRUE, "mock", TRUE)

AgricultureFailsOnError(configured, r) ==
    IF ~configured THEN Outcome(mock_agricultural_data, <<>>)
    ELSE IF r \in {"data", "recoverable"}
         THEN Outcome(Envelope(TRUE, "agriculture-api", FALSE), <<"crop-data">>)
    ELSE Outcome(Envelope(FALSE, "none", FALSE), <<"crop-data">>)
\* get_agricultural_data: the mock payload when key or URL is missing,
\* without a request, and when the request or the parsing fails; the live
\* data otherwise.
get_agricultural_data(configured, r) ==
    IF ~configured THEN Outcome(mock_agricultural_data, <<>>)
    ELSE IF r \in {"data", "recoverable"}
         THEN Outcome(Envelope(TRUE, "agriculture-api", FALSE), <<"crop-data">>)
    ELSE Outcome(mock_agricultural_data, <<"crop-data">>)

\* The envelopes get_agricultural_data can return.
AgricultureOutcomes(configured) ==
    {get_agricultural_data(configured, r).envelope : r \in AgricultureReplies}

\* get_soil_data: always the mock payload.
SoilOutcomes == {Envelope(TRUE, "mock", TRUE)}

NoSources == [k \in {} |-> ClientRaised]

\* What aggregated_data['sources'] keeps of a returned envelope.
Stored(o) == [success |-> o.success, source |-> o.source, mock |-> o.mock]

PutNothing(s, key, env) == s
Put(s, key, env) == [k \in DOMAIN s \cup {key} |-> IF k = key THEN env ELSE s[k]]

\* data.get('sources', {}).get(key, {}).get('success', False)
HasData(srcs, key) == key \in DOMAIN srcs /\ srcs[key].success

ContextRequiresWebSearch(srcs) ==
    IF "webSearch" \notin DOMAIN srcs
    THEN [raised |-> TRUE, used |-> {}, framing |-> "none"]
    ELSE [raised |-> FALSE,
          used |-> {k \in {"webSearch", "weather", "agriculture"} : HasData(srcs, k)},
          framing |-> "gathered"]
\* GeminiIntegration.synthesize_response, up to the prompt: the sources whose
\* data goes into context_info, and the framing sentence of the prompt.
SynthesisContext(srcs) ==
    LET used == {k \in {"webSearch", "weather", "agriculture"} : HasData(srcs, k)}
    IN [raised |-> FALSE, used |-> used,
        framing |-> IF used = {} THEN "general_knowledge" ELSE "gathered"]

\* The sources mappings a synthesize call can be given: any of the four keys
\* present or not, each entry a success or a failure envelope.
SourceMaps ==
    UNION { [K -> {Stored(Envelope(TRUE, "live", FALSE)),
                   Stored(Envelope(FALSE, "none", FALSE))}] :
            K \in SUBSET {"webSearch", "weather", "agriculture", "soil"} }

\* ------------------------------------------------------------ construction

\* What __init__ reads from outside: the providers whose API key is set, the
\* providers whose adapter constructor does not raise, and whether one of the
\* production markers (FLASK_ENV=production, RENDER, PORT) is set.
Env(keys, constructs, production) ==
    [keys |-> keys, constructs |-> constructs, production |-> production]

\* Orchestrator.__init__: a provider joins the ring when its key is set and
\* its adapter constructs, in priority order.
BuildRing(keys, constructs) ==
    SelectSeq(ProviderPriority, LAMBDA n : n \in keys /\ n \in constructs)

\* ai_name, current_ai after construction: the first entry, else the defaults.
InitialName(ring) == IF ring # <<>> THEN ring[1] ELSE "Unknown"
InitialAI(ring) == IF ring # <<>> THEN AdapterOf(ring[1]) ELSE "None"

\* ------------------------------------------------------------ ring call frame

NoValue == [none |-> TRUE]

Arg(q, a, srcs) == [query |-> q, analysis |-> a, sources |-> srcs]

NoFrame ==
    [ at |-> "none", method |-> "none", arg |-> Arg(NoQuery, NoAnalysis, NoSources),
      it |-> 0, idx |-> 0, name |-> "none", errors |-> <<>>, tried |-> <<>>,
      entry |-> <<>>, entryName |-> "none", entryAI |-> "none",
      ret |-> NoValue, popped |-> "none" ]

\* Entry of _safe_ai_call: errors = [], a fresh iterator over self.ai_models.
\* entry, entryName, entryAI (history): ring and labels when the call began.
NewFrame(method, arg, ring, nm, ai) ==
    [ NoFrame EXCEPT !.at = "next", !.method = method, !.arg = arg,
                     !.entry = ring, !.entryName = nm, !.entryAI = ai ]

\* (history) What a finished ring call did: f its frame, ok whether it
\* returned, v the value, ring/nm/ai the ring and labels when it ended.
Summary(f, ok, v, ring, nm, ai) ==
    [ method |-> f.method, arg |-> f.arg, entry |-> f.entry,
      entryName |-> f.entryName, entryAI |-> f.entryAI,
      tried |-> f.tried, errors |-> f.errors, idx |-> f.idx, name |-> f.name,
      popped |-> f.popped, ok |-> ok, ret |-> v,
      exit |-> ring, exitName |-> nm, exitAI |-> ai ]

NoLast == Summary(NoFrame, FALSE, NoValue, <<>>, "none", "none")

ErrorEntry(name, err) == [name |-> name, error |-> err]

\* What process_query ends with.
Returned(v) == [outcome |-> "returned", value |-> v]
AllFailedFirstOnly(errors) ==
    [outcome |-> "raised",
     value |-> [kind |-> "AllAIModelsFailed", errors |-> Prefix(errors, 1)]]
AllFailed(errors) ==
    [outcome |-> "raised", value |-> [kind |-> "AllAIModelsFailed", errors |-> errors]]
Escaped(kind) == [outcome |-> "raised", value |-> [kind |-> kind, errors |-> <<>>]]
NoResult == [outcome |-> "none", value |-> NoValue]

Ev(kind, what) == [ev |-> kind, what |-> what]

\* The /query handler: timedout once future.result has raised TimeoutError,
\* status 0 until the response is sent.
HttpResponse(timedout, status, ai_model) ==
    [timedout |-> timedout, status |-> status, ai_model |-> ai_model]
NoHttp == HttpResponse(FALSE, 0, "none")

\* (history) One `await method(...)` on the ring entry `name`: did it return?
Call(name, ok) == [name |-> name, ok |-> ok]

\* (history) A client call, and the exception it let escape if it did.
ClientLog(lg, client, o) ==
    IF o.raised THEN lg \o << Ev("client", client), Ev("raised", client) >>
    ELSE Append(lg, Ev("client", client))

\* list.pop(i) and list.insert(0, x), positions counted from 0.
InsertBack(ring, x) == ring \o <<x>>
InsertFront(ring, x) == <<x>> \o ring
PopNothing(ring, i) == ring
Pop(ring, i) == SubSeq(ring, 1, i) \o SubSeq(ring, i + 2, Len(ring))

\* ------------------------------------------------------------ process_query

ScriptMessage == [kind |-> "script_message", by |-> "none", method |-> "save_script"]

StageAfterSearchesAlways(after, a) ==
    IF after = "analysis" THEN "web"
    ELSE IF after \in {"analysis", "web"} /\ a.needsWeatherData /\ HasLocation(a)
         THEN "weather"
    ELSE IF after \in {"analysis", "web", "weather"}
            /\ a.needsAgriculturalData /\ HasLocation(a)
         THEN "agri"
    ELSE "synth"
\* The `if` chain of the data-gathering branch: the stage that follows `after`.
StageAfter(after, a) ==
    IF after = "analysis" /\ a.needsWebSearch THEN "web"
    ELSE IF after \in {"analysis", "web"} /\ a.needsWeatherData /\ HasLocation(a)
         THEN "weather"
    ELSE IF after \in {"analysis", "web", "weather"}
            /\ a.needsAgriculturalData /\ HasLocation(a)
         THEN "agri"
    ELSE "synth"

\* keywords = analysis.get('searchKeywords', analysis.get('keywords', [query]));
\* ', '.join(keywords) is evaluated before the guarded search call.
JoinRaises(a) == a.searchKeywords.kind = "null"

\* process_query runs on to its next await: a ring call begins, a client call
\* is pending, or an exception escapes.  lg is the log so far, ring/nm/ai the
\* ring and labels now.
Enter(t, stage, q, a, srcs, lg, ring, nm, ai) ==
    IF stage \in {"answer", "synth"} THEN
        LET m == IF stage = "answer" THEN "answer_directly" ELSE "synthesize_response"
            arg == IF stage = "answer" THEN Arg(q, NoAnalysis, NoSources)
                   ELSE Arg(q, a, srcs)
        IN /\ pc' = [pc EXCEPT ![t] = "ring"]
           /\ rc' = [rc EXCEPT ![t] = NewFrame(m, arg, ring, nm, ai)]
           /\ log' = [log EXCEPT ![t] = Append(lg, Ev("ring", m))]
           /\ UNCHANGED result
    ELSE IF stage = "web" /\ JoinRaises(a) THEN
        /\ pc' = [pc EXCEPT ![t] = "failed"]
        /\ rc' = [rc EXCEPT ![t] = NoFrame]
        /\ log' = [log EXCEPT ![t] = lg]
        /\ result' = [result EXCEPT ![t] = Escaped("TypeError")]
    ELSE
        /\ pc' = [pc EXCEPT ![t] = stage]
        /\ rc' = [rc EXCEPT ![t] = NoFrame]
        /\ log' = [log EXCEPT ![t] = lg]
        /\ UNCHANGED result

\* The PyQGIS condition of the code-generation branch.
WantsPyQGIS(q, a) ==
    a.codeType = "pyqgis" \/ Contains(q, "pyqgis") \/ Contains(q, "satellite")

AlwaysNeedsExternalData(a) == TRUE
NeedsExternalData(a) ==
    a.needsWebSearch \/ a.needsWeatherData \/ a.needsAgriculturalData

AfterAnalyzeDataFirst(t, a, lg, ring, nm, ai) ==
    LET q == query[t] IN
    /\ analysis' = [analysis EXCEPT ![t] = a]
    /\ sources' = [sources EXCEPT ![t] = NoSources]
    /\ IF ~IsMapping(a) THEN
          \* analysis.get('intent', '') on a value that is no dict
          /\ pc' = [pc EXCEPT ![t] = "failed"]
          /\ rc' = [rc EXCEPT ![t] = NoFrame]
          /\ log' = [log EXCEPT ![t] = lg]
          /\ result' = [result EXCEPT ![t] = Escaped("AttributeError")]
       ELSE IF NeedsExternalData(a)
            THEN Enter(t, StageAfter("analysis", a), q, a, NoSources, lg, ring, nm, ai)
       ELSE IF a.needsCodeGeneration THEN
          IF WantsPyQGIS(q, a) THEN
              \E saved \in BOOLEAN :
                /\ pc' = [pc EXCEPT ![t] = IF saved THEN "done" ELSE "failed"]
                /\ rc' = [rc EXCEPT ![t] = NoFrame]
                /\ log' = [log EXCEPT ![t] = Append(lg, Ev("script", "save_script"))]
                /\ result' = [result EXCEPT ![t] =
                                IF saved THEN Returned(ScriptMessage)
                                ELSE Escaped("ScriptSaveFailed")]
          ELSE Enter(t, "answer", q, a, NoSources, lg, ring, nm, ai)
       ELSE IF ~NeedsExternalData(a)
            THEN Enter(t, "answer", q, a, NoSources, lg, ring, nm, ai)
            ELSE Enter(t, StageAfter("analysis", a), q, a, NoSources, lg, ring, nm, ai)

AfterAnalyzeScriptFallback(t, a, lg, ring, nm, ai) ==
    LET q == query[t] IN
    /\ analysis' = [analysis EXCEPT ![t] = a]
    /\ sources' = [sources EXCEPT ![t] = NoSources]
    /\ IF ~IsMapping(a) THEN
          \* analysis.get('intent', '') on a value that is no dict
          /\ pc' = [pc EXCEPT ![t] = "failed"]
          /\ rc' = [rc EXCEPT ![t] = NoFrame]
          /\ log' = [log EXCEPT ![t] = lg]
          /\ result' = [result EXCEPT ![t] = Escaped("AttributeError")]
       ELSE IF a.needsCodeGeneration THEN
          IF WantsPyQGIS(q, a) THEN
              \E saved \in BOOLEAN :
                IF saved
                THEN /\ pc' = [pc EXCEPT ![t] = "done"]
                     /\ rc' = [rc EXCEPT ![t] = NoFrame]
                     /\ log' = [log EXCEPT ![t] = Append(lg, Ev("script", "save_script"))]
                     /\ result' = [result EXCEPT ![t] = Returned(ScriptMessage)]
                ELSE Enter(t, "answer", q, a, NoSources,
                           Append(lg, Ev("script", "save_script")), ring, nm, ai)
          ELSE Enter(t, "answer", q, a, NoSources, lg, ring, nm, ai)
       ELSE IF ~NeedsExternalData(a)
            THEN Enter(t, "answer", q, a, NoSources, lg, ring, nm, ai)
            ELSE Enter(t, StageAfter("analysis", a), q, a, NoSources, lg, ring, nm, ai)

\* process_query from the return of the analyze call to its next await.
AfterAnalyze(t, a, lg, ring, nm, ai) ==
    LET q == query[t] IN
    /\ analysis' = [analysis EXCEPT ![t] = a]
    /\ sources' = [sources EXCEPT ![t] = NoSources]
    /\ IF ~IsMapping(a) THEN
          \* analysis.get('intent', '') on a value that is no dict
          /\ pc' = [pc EXCEPT ![t] = "failed"]
          /\ rc' = [rc EXCEPT ![t] = NoFrame]
          /\ log' = [log EXCEPT ![t] = lg]
          /\ result' = [result EXCEPT ![t] = Escaped("AttributeError")]
       ELSE IF a.needsCodeGeneration THEN
          IF WantsPyQGIS(q, a) THEN
              \E saved \in BOOLEAN :
                /\ pc' = [pc EXCEPT ![t] = IF saved THEN "done" ELSE "failed"]
                /\ rc' = [rc EXCEPT ![t] = NoFrame]
                /\ log' = [log EXCEPT ![t] = Append(lg, Ev("script", "save_script"))]
                /\ result' = [result EXCEPT ![t] =
                                IF saved THEN Returned(ScriptMessage)
                                ELSE Escaped("ScriptSaveFailed")]
          ELSE Enter(t, "answer", q, a, NoSources, lg, ring, nm, ai)
       ELSE IF ~NeedsExternalData(a)
            THEN Enter(t, "answer", q, a, NoSources, lg, ring, nm, ai)
            ELSE Enter(t, StageAfter("analysis", a), q, a, NoSources, lg, ring, nm, ai)

\* `return result` of _safe_ai_call, and process_query up to its next await.
Return(t, v, ring, nm, ai) ==
    /\ lastServed' = v.by
    /\ last' = [last EXCEPT ![t] = Summary(rc[t], TRUE, v, ring, nm, ai)]
    /\ IF rc[t].method = "analyze_query"
       THEN AfterAnalyze(t, v.body, log[t], ring, nm, ai)
       ELSE /\ pc' = [pc EXCEPT ![t] = "done"]
            /\ rc' = [rc EXCEPT ![t] = NoFrame]
            /\ result' = [result EXCEPT ![t] = Returned(v)]
            /\ UNCHANGED << analysis, sources, log >>

\* ------------------------------------------------------------------ actions

\* process_query(query) up to the first await of its analyze call.
StartQuery(t, Q) ==
    /\ built = "ok"
    /\ pc[t] = "idle"
    /\ \E q \in Q :
         /\ query' = [query EXCEPT ![t] = q]
         /\ rc' = [rc EXCEPT ![t] =
                     NewFrame("analyze_query", Arg(q, NoAnalysis, NoSources),
                              ai_models, ai_name, current_ai)]
    /\ pc' = [pc EXCEPT ![t] = "ring"]
    /\ log' = [log EXCEPT ![t] = <<Ev("ring", "analyze_query")>>]
    /\ analysis' = [analysis EXCEPT ![t] = NoAnalysis]
    /\ sources' = [sources EXCEPT ![t] = NoSources]
    /\ result' = [result EXCEPT ![t] = NoResult]
    /\ last' = [last EXCEPT ![t] = NoLast]
    /\ calls' = [calls EXCEPT ![t] = <<>>]
    /\ http' = [http EXCEPT ![t] = NoHttp]
    /\ UNCHANGED << shared, config, lastServed >>

RingTryBackwards(t) ==
    /\ pc[t] = "ring" /\ rc[t].at = "next"
    /\ rc[t].it < Len(ai_models)
    /\ LET name == ai_models[Len(ai_models) - rc[t].it] IN
         rc' = [rc EXCEPT ![t].at = "await", ![t].idx = rc[t].it,
                          ![t].it = rc[t].it + 1, ![t].name = name,
                          ![t].tried = Append(rc[t].tried, name)]
    /\ UNCHANGED << shared, config, pc, query, analysis, sources, result, log,
                    last, lastServed, calls, http >>

\* The for loop takes the next entry of the live list and calls the method.
RingTry(t) ==
    /\ pc[t] = "ring" /\ rc[t].at = "next"
    /\ rc[t].it < Len(ai_models)
    /\ LET name == ai_models[rc[t].it + 1] IN
         rc' = [rc EXCEPT ![t].at = "await", ![t].idx = rc[t].it,
                          ![t].it = rc[t].it + 1, ![t].name = name,
                          ![t].tried = Append(rc[t].tried, name)]
    /\ UNCHANGED << shared, config, pc, query, analysis, sources, result, log,
                    last, lastServed, calls, http >>

RingExhaustedReturns(t) ==
    /\ pc[t] = "ring" /\ rc[t].at = "next"
    /\ rc[t].it >= Len(ai_models)
    /\ pc' = [pc EXCEPT ![t] = "done"]
    /\ result' = [result EXCEPT ![t] = Returned(Apology("none", rc[t].method))]
    /\ last' = [last EXCEPT ![t] =
                  Summary(rc[t], FALSE, NoValue, ai_models, ai_name, current_ai)]
    /\ rc' = [rc EXCEPT ![t] = NoFrame]
    /\ UNCHANGED << shared, config, query, analysis, sources, log, lastServed, calls, http >>

RingExhaustedRotates(t) ==
    /\ pc[t] = "ring" /\ rc[t].at = "next"
    /\ rc[t].it >= Len(ai_models)
    /\ pc' = [pc EXCEPT ![t] = "failed"]
    /\ result' = [result EXCEPT ![t] = AllFailed(rc[t].errors)]
    /\ ai_models' = IF ai_models = <<>> THEN ai_models
                    ELSE Append(Tail(ai_models), Head(ai_models))
    /\ last' = [last EXCEPT ![t] =
                  Summary(rc[t], FALSE, NoValue, ai_models', ai_name, current_ai)]
    /\ rc' = [rc EXCEPT ![t] = NoFrame]
    /\ UNCHANGED << ai_name, current_ai, config, query, analysis, sources, log,
                    lastServed, calls, http >>

\* The iterator is exhausted: raise "All AI models failed", which
\* process_query does not catch.
RingExhausted(t) ==
    /\ pc[t] = "ring" /\ rc[t].at = "next"
    /\ rc[t].it >= Len(ai_models)
    /\ pc' = [pc EXCEPT ![t] = "failed"]
    /\ result' = [result EXCEPT ![t] = AllFailed(rc[t].errors)]
    /\ last' = [last EXCEPT ![t] =
                  Summary(rc[t], FALSE, NoValue, ai_models, ai_name, current_ai)]
    /\ rc' = [rc EXCEPT ![t] = NoFrame]
    /\ UNCHANGED << shared, config, query, analysis, sources, log, lastServed, calls, http >>

\* except Exception as e: errors.append(f"{name}: {e}"), then the next entry.
ProviderFails(t, A) ==
    /\ pc[t] = "ring" /\ rc[t].at = "await"
    /\ \E o \in CallOutcomes(rc[t].name, rc[t].method, query[t], A, mocked) :
         /\ ~o.ok
         /\ rc' = [rc EXCEPT ![t].at = "next",
                             ![t].errors = Append(rc[t].errors,
                                                  ErrorEntry(rc[t].name, o.err))]
    /\ calls' = [calls EXCEPT ![t] = Append(calls[t], Call(rc[t].name, FALSE))]
    /\ UNCHANGED << shared, config, pc, query, analysis, sources, result, log,
                    last, lastServed, http >>

\* The awaited method returned: at idx 0 the result is returned at once,
\* at idx > 0 the promotion statements run first.
ProviderSucceeds(t, A) ==
    /\ pc[t] = "ring" /\ rc[t].at = "await"
    /\ \E o \in CallOutcomes(rc[t].name, rc[t].method, query[t], A, mocked) :
         /\ o.ok
         /\ IF rc[t].idx > 0
            THEN /\ rc' = [rc EXCEPT ![t].at = "set_name", ![t].ret = o.val]
                 /\ UNCHANGED << pc, analysis, sources, result, log, last, lastServed >>
            ELSE Return(t, o.val, ai_models, ai_name, current_ai)
    /\ calls' = [calls EXCEPT ![t] = Append(calls[t], Call(rc[t].name, TRUE))]
    /\ UNCHANGED << shared, config, query, http >>

SetNameSkipped(t) ==
    /\ pc[t] = "ring" /\ rc[t].at = "set_name"
    /\ rc' = [rc EXCEPT ![t].at = "set_ai"]
    /\ UNCHANGED << shared, config, pc, query, analysis, sources,
                    result, log, last, lastServed, calls, http >>

\* self.ai_name = name
SetName(t) ==
    /\ pc[t] = "ring" /\ rc[t].at = "set_name"
    /\ ai_name' = rc[t].name
    /\ rc' = [rc EXCEPT ![t].at = "set_ai"]
    /\ UNCHANGED << ai_models, current_ai, config, pc, query, analysis, sources,
                    result, log, last, lastServed, calls, http >>

\* self.current_ai = ai_instance
SetCurrent(t) ==
    /\ pc[t] = "ring" /\ rc[t].at = "set_ai"
    /\ current_ai' = AdapterOf(rc[t].name)
    /\ rc' = [rc EXCEPT ![t].at = "pop"]
    /\ UNCHANGED << ai_models, ai_name, config, pc, query, analysis, sources,
                    result, log, last, lastServed, calls, http >>

\* self.ai_models.pop(idx): the entry now at idx leaves the list.  An idx past
\* the end raises IndexError inside the try block, which the except clause
\* records as this provider's error before the loop goes on.
PopModel(t) ==
    /\ pc[t] = "ring" /\ rc[t].at = "pop"
    /\ IF rc[t].idx < Len(ai_models)
       THEN /\ ai_models' = Pop(ai_models, rc[t].idx)
            /\ rc' = [rc EXCEPT ![t].at = "insert",
                                ![t].popped = ai_models[rc[t].idx + 1]]
       ELSE /\ rc' = [rc EXCEPT ![t].at = "next", ![t].ret = NoValue,
                                ![t].errors = Append(rc[t].errors,
                                    ErrorEntry(rc[t].name, "pop index out of range"))]
            /\ UNCHANGED ai_models
    /\ UNCHANGED << ai_name, current_ai, config, pc, query, analysis, sources,
                    result, log, last, lastServed, calls, http >>

\* self.ai_models.insert(0, <popped>), then `return result`.
InsertModel(t) ==
    /\ pc[t] = "ring" /\ rc[t].at = "insert"
    /\ ai_models' = InsertFront(ai_models, rc[t].popped)
    /\ Return(t, rc[t].ret, InsertFront(ai_models, rc[t].popped), ai_name, current_ai)
    /\ UNCHANGED << ai_name, current_ai, config, query, calls, http >>

\* await self.web_search.search(query, keywords), guarded by except Exception.
WebSearch(t) ==
    /\ pc[t] = "web"
    /\ \E o \in SearchOutcomes(web_cfg) \cup {ClientRaised} :
         LET srcs == IF o.raised THEN sources[t]
                     ELSE Put(sources[t], "webSearch", Stored(o))
         IN /\ sources' = [sources EXCEPT ![t] = srcs]
            /\ Enter(t, StageAfter("web", analysis[t]), query[t], analysis[t], srcs,
                     ClientLog(log[t], "search", o),
                     ai_models, ai_name, current_ai)
    /\ UNCHANGED << shared, config, query, analysis, last, lastServed, calls, http >>

\* await self.regional_data.get_weather_data(location), guarded.
Weather(t) ==
    /\ pc[t] = "weather"
    /\ \E o \in WeatherOutcomes \cup {ClientRaised} :
         LET srcs == IF o.raised THEN sources[t]
                     ELSE Put(sources[t], "weather", Stored(o))
         IN /\ sources' = [sources EXCEPT ![t] = srcs]
            /\ Enter(t, StageAfter("weather", analysis[t]), query[t], analysis[t], srcs,
                     ClientLog(log[t], "get_weather_data", o),
                     ai_models, ai_name, current_ai)
    /\ UNCHANGED << shared, config, query, analysis, last, lastServed, calls, http >>

AgricultureOnly(t) ==
    /\ pc[t] = "agri"
    /\ \E oa \in AgricultureOutcomes(agri_cfg) \cup {ClientRaised},
          os \in SoilOutcomes \cup {ClientRaised} :
         LET srcs == IF oa.raised THEN sources[t]
                     ELSE Put(sources[t], "agriculture", Stored(oa))
             lg == IF oa.raised
                   THEN ClientLog(log[t], "get_agricultural_data", oa)
                   ELSE ClientLog(ClientLog(log[t], "get_agricultural_data", oa),
                                  "get_soil_data", os)
         IN /\ sources' = [sources EXCEPT ![t] = srcs]
            /\ Enter(t, "synth", query[t], analysis[t], srcs, lg,
                     ai_models, ai_name, current_ai)
    /\ UNCHANGED << shared, config, query, analysis, last, lastServed, calls, http >>

\* get_agricultural_data then get_soil_data in one try block: both results
\* are stored after both calls returned.
Agriculture(t) ==
    /\ pc[t] = "agri"
    /\ \E oa \in AgricultureOutcomes(agri_cfg) \cup {ClientRaised},
          os \in SoilOutcomes \cup {ClientRaised} :
         LET srcs == IF oa.raised \/ os.raised THEN sources[t]
                     ELSE Put(Put(sources[t], "agriculture", Stored(oa)),
                              "soil", Stored(os))
             lg == IF oa.raised
                   THEN ClientLog(log[t], "get_agricultural_data", oa)
                   ELSE ClientLog(ClientLog(log[t], "get_agricultural_data", oa),
                                  "get_soil_data", os)
         IN /\ sources' = [sources EXCEPT ![t] = srcs]
            /\ Enter(t, "synth", query[t], analysis[t], srcs, lg,
                     ai_models, ai_name, current_ai)
    /\ UNCHANGED << shared, config, query, analysis, last, lastServed, calls, http >>

\* future.result(timeout=120) raises TimeoutError while process_query is
\* still running on the executor's thread.  The handler is inside
\* `with ThreadPoolExecutor() as executor`, whose exit waits for that thread
\* (shutdown(wait=True)) before the except clause can answer.
Timeout(t) ==
    /\ pc[t] \in {"ring", "web", "weather", "agri"}
    /\ ~http[t].timedout
    /\ http' = [http EXCEPT ![t].timedout = TRUE]
    /\ UNCHANGED << shared, config, pc, query, rc, analysis, sources, result, log,
                    last, lastServed, calls >>

\* process_query has ended and the handler answers: 504 after a timeout,
\* 500 after an exception, else 200 with 'ai_model': orch.ai_name, read now.
Respond(t) ==
    /\ pc[t] \in {"done", "failed"}
    /\ http[t].status = 0
    /\ http' = [http EXCEPT ![t] =
                  IF http[t].timedout THEN HttpResponse(TRUE, 504, "none")
                  ELSE IF pc[t] = "failed" THEN HttpResponse(FALSE, 500, "none")
                  ELSE HttpResponse(FALSE, 200, ai_name)]
    /\ UNCHANGED << shared, config, pc, query, rc, analysis, sources, result, log,
                    last, lastServed, calls >>

\* The caller has the response; the task is free for the next request.
Finish(t) ==
    /\ pc[t] \in {"done", "failed"}
    /\ http[t].status # 0
    /\ pc' = [pc EXCEPT ![t] = "idle"]
    /\ query' = [query EXCEPT ![t] = NoQuery]
    /\ analysis' = [analysis EXCEPT ![t] = NoAnalysis]
    /\ sources' = [sources EXCEPT ![t] = NoSources]
    /\ result' = [result EXCEPT ![t] = NoResult]
    /\ log' = [log EXCEPT ![t] = <<>>]
    /\ last' = [last EXCEPT ![t] = NoLast]
    /\ calls' = [calls EXCEPT ![t] = <<>>]
    /\ http' = [http EXCEPT ![t] = NoHttp]
    /\ UNCHANGED << shared, config, rc, lastServed >>

\* Everything but probe.
pipeline == << ai_models, ai_name, current_ai, mocked, web_cfg, agri_cfg, environ,
               built, boot, pc, query, rc, analysis, sources, result, log, last,
               lastServed, calls, http >>

\* web_search.search(query, keywords) called directly, as test_data_sources
\* does: cfg the tiers configured, yields the tiers that would give a result.
CallSearch ==
    /\ \E cfg \in SUBSET Range(WebTiers), yields \in SUBSET Range(WebTiers) :
         probe' = [fn |-> "search", cfg |-> cfg, yields |-> yields,
                   out |-> search(cfg, yields)]
    /\ UNCHANGED pipeline

\* regional_data.get_weather_data(location) called directly.
CallWeather ==
    /\ \E g \in GeocodeReplies, f \in ForecastReplies :
         probe' = [fn |-> "get_weather_data", geocoding |-> g, forecast |-> f,
                   out |-> get_weather_data(g, f)]
    /\ UNCHANGED pipeline

\* regional_data.get_agricultural_data(location) called directly.
CallAgriculture ==
    /\ \E configured \in BOOLEAN, r \in AgricultureReplies :
         probe' = [fn |-> "get_agricultural_data", configured |-> configured,
                   reply |-> r, out |-> get_agricultural_data(configured, r)]
    /\ UNCHANGED pipeline

\* GeminiIntegration.synthesize_response(query, data) called directly.
CallSynthesize ==
    /\ \E srcs \in SourceMaps :
         probe' = [fn |-> "synthesize_response", sources |-> srcs,
                   out |-> SynthesisContext(srcs)]
    /\ UNCHANGED pipeline

\* get_weather_data on a payload with the hourly object h and the daily
\* object d, the place found and the current conditions complete.
CallForecast ==
    /\ probe.fn = "payload"
    /\ probe' = [fn |-> "forecast", hourly |-> probe.hourly, daily |-> probe.daily,
                 out |-> Forecast(probe.hourly, probe.daily)]
    /\ UNCHANGED pipeline

\* search(query, keywords) called directly: the result, and the query
\* string the serving tier searched with.
CallSearchWithKeywords ==
    /\ probe.fn = "search_input"
    /\ LET o == search(probe.cfg, probe.yields) IN
         probe' = [fn |-> "searched", cfg |-> probe.cfg, yields |-> probe.yields,
                   keywords |-> probe.keywords, out |-> o,
                   used |-> TierQuery(o.envelope.source, 0, probe.keywords)]
    /\ UNCHANGED pipeline

\* safe_extract_json_from_text(text) called directly.
CallExtract ==
    /\ probe.fn = "text"
    /\ probe' = [fn |-> "extracted", text |-> probe.text,
                 out |-> ExtractFromText(probe.text)]
    /\ UNCHANGED pipeline

\* The provider __init__ tries after `name`, or the selection of the primary.
NextToTry(name) ==
    LET i == CHOOSE j \in 1..Len(ProviderPriority) : ProviderPriority[j] = name
    IN IF i < Len(ProviderPriority) THEN ProviderPriority[i + 1] ELSE "select"

TryProviderIgnoringConstructor(name) ==
    /\ built = name
    /\ ai_models' = IF name \in environ.keys
                     THEN Append(ai_models, name) ELSE ai_models
    /\ built' = NextToTry(name)
    /\ UNCHANGED << ai_name, current_ai, mocked, web_cfg, agri_cfg, environ, probe, boot,
                    pc, query, rc, analysis, sources, result, log, last,
                    lastServed, calls, http >>

\* __init__, one provider: if its key is set, construct the adapter and
\* append (name, adapter); a constructor that raises is only reported.
TryProvider(name) ==
    /\ built = name
    /\ ai_models' = IF name \in environ.keys /\ name \in environ.constructs
                     THEN Append(ai_models, name) ELSE ai_models
    /\ built' = NextToTry(name)
    /\ UNCHANGED << ai_name, current_ai, mocked, web_cfg, agri_cfg, environ, probe, boot,
                    pc, query, rc, analysis, sources, result, log, last,
                    lastServed, calls, http >>

\* __init__, after the three providers: the first entry becomes the current
\* provider; with no entry the constructor raises unless a production marker
\* is set, and then returns the instance with an empty ring.
SelectPrimary ==
    /\ built = "select"
    /\ IF ai_models # <<>>
       THEN /\ ai_name' = ai_models[1]
            /\ current_ai' = AdapterOf(ai_models[1])
            /\ built' = "ok"
       ELSE /\ built' = IF environ.production THEN "ok" ELSE "raised"
            /\ UNCHANGED << ai_name, current_ai >>
    /\ UNCHANGED << ai_models, mocked, web_cfg, agri_cfg, environ, probe, boot,
                    pc, query, rc, analysis, sources, result, log, last,
                    lastServed, calls, http >>

\* Everything but boot.
served == << ai_models, ai_name, current_ai, mocked, web_cfg, agri_cfg, environ,
             built, probe, pc, query, rc, analysis, sources, result, log, last,
             lastServed, calls, http >>

\* Orchestrator() raises: no provider was added and no production marker set.
ConstructorRaises ==
    BuildRing(environ.keys, environ.constructs) = <<>> /\ ~environ.production

\* get_orchestrator, `if orchestrator is None:` read by request thread t.
CheckOrchestrator(t) ==
    /\ boot.at[t] = "idle"
    /\ boot' = [boot EXCEPT !.at[t] = IF boot.slot = 0 THEN "construct" ELSE "return"]
    /\ UNCHANGED served

\* Orchestrator() runs in thread t: a new instance, or the exception that
\* get_orchestrator re-raises and query answers with 503.
ConstructOrchestrator(t) ==
    /\ boot.at[t] = "construct"
    /\ boot' = IF ConstructorRaises
               THEN [boot EXCEPT !.at[t] = "unavailable"]
               ELSE [boot EXCEPT !.at[t] = "assign", !.made = boot.made \cup {t}]
    /\ UNCHANGED served

\* `orchestrator = ...`: the instance thread t constructed goes to the global.
AssignOrchestrator(t) ==
    /\ boot.at[t] = "assign"
    /\ boot' = [boot EXCEPT !.at[t] = "return", !.slot = t]
    /\ UNCHANGED served

\* `return orchestrator`: thread t gets what the global holds now.
ReturnOrchestrator(t) ==
    /\ boot.at[t] = "return"
    /\ boot' = [boot EXCEPT !.at[t] = "served", !.got[t] = boot.slot]
    /\ UNCHANGED served

\* The request is answered; the thread takes its next request.
NextRequest(t) ==
    /\ boot.at[t] \in {"served", "unavailable"}
    /\ boot' = [boot EXCEPT !.at[t] = "idle"]
    /\ UNCHANGED served

\* ------------------------------------------------------------ specifications

\* Client configurations that are explored: nothing configured, or the free
\* search tiers installed and the agriculture API configured.
ClientConfigs ==
    { [web |-> {}, agri |-> FALSE],
      [web |-> {"duckduckgo", "wikipedia"}, agri |-> TRUE] }

NoProbe == [fn |-> "none"]

\* The global `orchestrator` of api.py: slot is the instance it holds (0 for
\* None; an instance is named by the thread that constructed it), made the
\* instances constructed so far, at each thread's position in
\* get_orchestrator, got the instance each thread was given.
Boot(slot, made, at, got) == [slot |-> slot, made |-> made, at |-> at, got |-> got]

NotBooted == Boot(0, {}, [t \in Tasks |-> "idle"], [t \in Tasks |-> 0])

\* One instance was constructed by the first request and is in the slot.
Booted == Boot(1, {1}, [t \in Tasks |-> "idle"], [t \in Tasks |-> 0])

\* No request has been received.
NoRequests ==
    /\ pc = [t \in Tasks |-> "idle"]
    /\ query = [t \in Tasks |-> NoQuery]
    /\ rc = [t \in Tasks |-> NoFrame]
    /\ analysis = [t \in Tasks |-> NoAnalysis]
    /\ sources = [t \in Tasks |-> NoSources]
    /\ result = [t \in Tasks |-> NoResult]
    /\ log = [t \in Tasks |-> <<>>]
    /\ last = [t \in Tasks |-> NoLast]
    /\ lastServed = "none"
    /\ calls = [t \in Tasks |-> <<>>]
    /\ http = [t \in Tasks |-> NoHttp]

\* The state after Orchestrator() was constructed from the keys in `keys`
\* in the served (production) environment, where an empty ring is accepted,
\* optionally with the entry at position 0 replaced by the failing double.
InitOrchestrator(keysets, mocks, configs) ==
    /\ \E keys \in keysets : ai_models = BuildRing(keys, ProviderNames)
    /\ ai_name = InitialName(ai_models)
    /\ current_ai = InitialAI(ai_models)
    /\ mocked \in {{}} \cup (IF ai_models # <<>> /\ mocks THEN {{ai_models[1]}} ELSE {})
    /\ \E c \in configs : web_cfg = c.web /\ agri_cfg = c.agri
    /\ environ = Env(Range(ai_models), ProviderNames, TRUE)
    /\ built = "ok"
    /\ probe = NoProbe
    /\ boot = Booted
    /\ NoRequests

Init == InitOrchestrator(SUBSET ProviderNames, TRUE, ClientConfigs)

\* One request at a time: every ring call runs to its end before the next.
Next ==
    \/ StartQuery(1, Queries)
    \/ RingTry(1)
    \/ RingExhausted(1)
    \/ ProviderFails(1, Analyses)
    \/ ProviderSucceeds(1, Analyses)
    \/ SetName(1)
    \/ SetCurrent(1)
    \/ PopModel(1)
    \/ InsertModel(1)
    \/ WebSearch(1)
    \/ Weather(1)
    \/ Agriculture(1)
    \/ Respond(1)
    \/ Finish(1)

Spec == Init /\ [][Next]_vars

\* The sequential pipeline on the full ring, with the handler's 120 s
\* ceiling able to expire while a query is in flight.
InitHttp ==
    InitOrchestrator({ProviderNames}, TRUE, {[web |-> {}, agri |-> FALSE]})

NextHttp == Next \/ Timeout(1)

SpecHttp == InitHttp /\ [][NextHttp]_vars

\* The clients and the synthesis context, called directly on every input.
InitClients ==
    InitOrchestrator({ProviderNames}, FALSE, {[web |-> {}, agri |-> FALSE]})

NextClients == CallSearch \/ CallWeather \/ CallAgriculture \/ CallSynthesize

SpecClients == InitClients /\ [][NextClients]_vars

\* The state of a served Orchestrator with `p` the direct call about to be
\* made on a client or a parser.
InitProbe(p) ==
    /\ ai_models = BuildRing(ProviderNames, ProviderNames)
    /\ ai_name = InitialName(ai_models)
    /\ current_ai = InitialAI(ai_models)
    /\ mocked = {}
    /\ web_cfg = {} /\ agri_cfg = FALSE
    /\ environ = Env(ProviderNames, ProviderNames, TRUE)
    /\ built = "ok"
    /\ probe = p
    /\ boot = Booted
    /\ NoRequests

\* get_weather_data called directly, once for every forecast payload
\* explored: the API is about to answer with the payload in probe.
InitForecast ==
    \E h \in HourlyPayloads, d \in DailyPayloads :
        InitProbe([fn |-> "payload", hourly |-> h, daily |-> d])

NextForecast == CallForecast

SpecForecast == InitForecast /\ [][NextForecast]_vars

\* search called once for every configuration, every set of answering
\* tiers and every keyword list of up to MaxKeywords keywords (the query
\* is word 0, the keywords are words 1, 2, ...).
InitKeywords ==
    \E cfg \in SUBSET Range(WebTiers), yields \in SUBSET Range(WebTiers),
       n \in 0..MaxKeywords :
        InitProbe([fn |-> "search_input", cfg |-> cfg, yields |-> yields,
                   keywords |-> [i \in 1..n |-> i]])

NextKeywords == CallSearchWithKeywords

SpecKeywords == InitKeywords /\ [][NextKeywords]_vars

\* The extractor called once on every text of up to MaxSegments segments.
InitExtract ==
    \E n \in 0..MaxSegments : \E text \in [1..n -> Segments] :
        InitProbe([fn |-> "text", text |-> text])

NextExtract == CallExtract

SpecExtract == InitExtract /\ [][NextExtract]_vars

\* NumTasks request threads, each serving one request, run their ring calls
\* at the same time on the one Orchestrator: queries that need no external
\* data (analyze, then answer_directly), on the full ring.
DirectAnalyses == { Analysis(FALSE, FALSE, FALSE, FALSE, "null", "null", KwList(<<>>)) }

DirectQueries == { q \in Queries : q.has = {} }

InitConc ==
    InitOrchestrator({ProviderNames}, TRUE, {[web |-> {}, agri |-> FALSE]})

NextConc ==
    \E t \in Tasks :
        \/ StartQuery(t, DirectQueries)
        \/ RingTry(t)
        \/ RingExhausted(t)
        \/ ProviderFails(t, DirectAnalyses)
        \/ ProviderSucceeds(t, DirectAnalyses)
        \/ SetName(t)
        \/ SetCurrent(t)
        \/ PopModel(t)
        \/ InsertModel(t)
        \/ Respond(t)

SpecConc == InitConc /\ [][NextConc]_vars

\* Orchestrator() under construction, for every combination of keys set,
\* adapters that construct, and production marker: __init__ begins with an
\* empty ring and the labels None and "Unknown".
InitBuild ==
    /\ ai_models = <<>>
    /\ ai_name = InitialName(<<>>)
    /\ current_ai = InitialAI(<<>>)
    /\ mocked = {}
    /\ web_cfg = {} /\ agri_cfg = FALSE
    /\ \E keys \in SUBSET ProviderNames, constructs \in SUBSET ProviderNames,
          production \in BOOLEAN : environ = Env(keys, constructs, production)
    /\ built = ProviderPriority[1]
    /\ probe = NoProbe
    /\ boot = NotBooted
    /\ NoRequests

NextBuild ==
    \/ \E name \in ProviderNames : TryProvider(name)
    \/ SelectPrimary

SpecBuild == InitBuild /\ [][NextBuild]_vars

\* The first requests of a fresh process, each on its own thread, every
\* one calling get_orchestrator, for every environment.
InitBoot ==
    /\ ai_models = <<>>
    /\ ai_name = InitialName(<<>>)
    /\ current_ai = InitialAI(<<>>)
    /\ mocked = {}
    /\ web_cfg = {} /\ agri_cfg = FALSE
    /\ \E keys \in SUBSET ProviderNames, constructs \in SUBSET ProviderNames,
          production \in BOOLEAN : environ = Env(keys, constructs, production)
    /\ built = ProviderPriority[1]
    /\ probe = NoProbe
    /\ boot = NotBooted
    /\ NoRequests

NextBoot ==
    \E t \in Tasks :
        \/ CheckOrchestrator(t)
        \/ ConstructOrchestrator(t)
        \/ AssignOrchestrator(t)
        \/ ReturnOrchestrator(t)
        \/ NextRequest(t)

SpecBoot == InitBoot /\ [][NextBoot]_vars

\* ------------------------------------------------------------------ claims

\* No promotion is half done: no task stands between `self.ai_name = name`
\* and the end of the insert.
Settled == \A t \in Tasks : rc[t].at \notin {"set_ai", "pop", "insert"}

\* C1: when a ring call succeeds at index i > 0, all entries before i having
\* failed, the ring after the call is the succeeding provider followed by the
\* other providers in their previous relative order.
C1_PromotionMovesToFront ==
    \A t \in Tasks :
        (last[t].ok /\ last[t].idx > 0) =>
            /\ Len(last[t].errors) = last[t].idx
            /\ \A i \in 1..last[t].idx : last[t].errors[i].name = last[t].entry[i]
            /\ last[t].ret.by = last[t].entry[last[t].idx + 1]
            /\ last[t].exit = <<last[t].entry[last[t].idx + 1]>>
                              \o SubSeq(last[t].entry, 1, last[t].idx)
                              \o SubSeq(last[t].entry, last[t].idx + 2, Len(last[t].entry))

\* A call on a ring of three that succeeded at the last index.
C1_Witness ==
    \E t \in Tasks :
        last[t].ok /\ last[t].idx = 2 /\ Len(last[t].entry) = 3
        /\ last[t].entry[1] # "Gemini"

\* C2: between promotions, on a non-empty ring, ai_name and current_ai name
\* the entry at position 0, and once a ring call has succeeded that entry is
\* the provider that served the most recent successful call.
C2_LabelNamesFront ==
    (Settled /\ ai_models # <<>>) =>
        /\ ai_name = ai_models[1]
        /\ current_ai = AdapterOf(ai_models[1])
        /\ (lastServed # "none" => ai_models[1] = lastServed)

\* A fallback provider was promoted and now carries the label.
C2_Witness ==
    /\ Settled /\ Len(ai_models) = 3
    /\ lastServed = "OpenRouter" /\ ai_name = "OpenRouter"
    /\ ai_models[2] = "Groq"

\* C3: within one ring call the providers are invoked in the ring's order,
\* each at most once, none after the first that succeeds, and the call
\* returns that provider's result.
C3_InvokedInOrderUntilSuccess ==
    \A t \in Tasks :
        /\ rc[t].at # "none" =>
              /\ Len(rc[t].tried) <= Len(rc[t].entry)
              /\ rc[t].tried = SubSeq(rc[t].entry, 1, Len(rc[t].tried))
              /\ rc[t].at \in {"set_name", "set_ai", "pop", "insert"} =>
                    rc[t].ret.by = rc[t].tried[Len(rc[t].tried)]
        /\ last[t].ok =>
              /\ last[t].tried = SubSeq(last[t].entry, 1, last[t].idx + 1)
              /\ Cardinality(Range(last[t].tried)) = Len(last[t].tried)
              /\ [i \in 1..last[t].idx |-> last[t].errors[i].name]
                   = SubSeq(last[t].tried, 1, last[t].idx)
              /\ last[t].ret.by = last[t].tried[last[t].idx + 1]
              /\ (pc[t] = "done" /\ last[t].method # "analyze_query") =>
                    result[t] = Returned(last[t].ret)
              /\ (last[t].method = "analyze_query" /\ analysis[t] # NoAnalysis) =>
                    analysis[t] = last[t].ret.body

\* A call that returned the second provider's result while a third was left.
C3_Witness ==
    \E t \in Tasks :
        /\ last[t].ok /\ last[t].idx = 1 /\ Len(last[t].entry) = 3
        /\ pc[t] = "done" /\ result[t].value.by = last[t].entry[2]

\* C4: if all N providers of the ring fail in a ring call, the call fails
\* with one error listing exactly N entries "<name>: <error>", one per
\* provider, in the order tried.
C4_AllFailedListsEveryProvider ==
    \A t \in Tasks :
        (last[t].method # "none" /\ ~last[t].ok) =>
            /\ Len(last[t].errors) = Len(last[t].entry)
            /\ [i \in 1..Len(last[t].errors) |-> last[t].errors[i].name] = last[t].entry
            /\ last[t].tried = last[t].entry
            /\ pc[t] = "failed"
            /\ result[t].outcome = "raised"
            /\ result[t].value.kind = "AllAIModelsFailed"
            /\ result[t].value.errors = last[t].errors

\* All three providers failed in one call.
C4_Witness ==
    \E t \in Tasks :
        last[t].method # "none" /\ ~last[t].ok /\ Len(last[t].errors) = 3

DataBranch(t) ==
    /\ IsMapping(analysis[t])
    /\ ~analysis[t].needsCodeGeneration
    /\ NeedsExternalData(analysis[t])

\* C5: a provider whose model call failed is treated by the ring as failed:
\* no ring call returns the product of a failed model call (the canned
\* apology, or the default analysis computed because the call failed).
C5_ModelFailureFallsOver ==
    \A t \in Tasks :
        last[t].ok =>
            /\ last[t].ret.kind # "apology"
            /\ ~(last[t].ret.kind = "analysis" /\ last[t].ret.cause = "call_failed")

\* C6: after concurrent ring calls have ended, the ring is a permutation of
\* its members, every promotion moved the provider that succeeded, and the
\* label names position 0.
C6_ConcurrentPromotionSafe ==
    (\A t \in Tasks : pc[t] \in {"done", "failed"}) =>
        /\ Len(ai_models) = Len(ProviderPriority)
        /\ Range(ai_models) = ProviderNames
        /\ ai_name = ai_models[1]
        /\ \A t \in Tasks :
             (last[t].ok /\ last[t].idx > 0) => last[t].popped = last[t].name

\* C7: when the analysis sets none of the four needs* flags, process_query
\* makes one answer_directly ring call after analyze, returns its result, and
\* calls no data-source client and no synthesize.
C7_DirectAnswerOnly ==
    \A t \in Tasks :
        ( /\ IsMapping(analysis[t])
          /\ ~analysis[t].needsCodeGeneration
          /\ ~analysis[t].needsWebSearch
          /\ ~analysis[t].needsWeatherData
          /\ ~analysis[t].needsAgriculturalData ) =>
            /\ log[t] = << Ev("ring", "analyze_query"), Ev("ring", "answer_directly") >>
            /\ pc[t] \in {"ring", "done", "failed"}
            /\ sources[t] = NoSources
            /\ pc[t] = "done" =>
                  /\ last[t].method = "answer_directly"
                  /\ result[t] = Returned(last[t].ret)

\* The direct answer came back.
C7_Witness ==
    \E t \in Tasks :
        /\ IsMapping(analysis[t])
        /\ ~NeedsExternalData(analysis[t]) /\ ~analysis[t].needsCodeGeneration
        /\ pc[t] = "done" /\ result[t].value.kind = "text"

\* C8: a query on the data-gathering branch makes exactly two ring calls,
\* analyze first and synthesize last, with every client call between them;
\* synthesize gets the aggregate of query, analysis and gathered sources, and
\* its result is what process_query returns.
C8_TwoRingCallsAroundClients ==
    \A t \in Tasks :
        (DataBranch(t) /\ pc[t] \in {"done", "failed"}) =>
            /\ Len(log[t]) >= 2
            /\ log[t][1] = Ev("ring", "analyze_query")
            /\ log[t][Len(log[t])] = Ev("ring", "synthesize_response")
            /\ \A i \in 2..(Len(log[t]) - 1) : log[t][i].ev \in {"client", "raised"}
            /\ last[t].method = "synthesize_response"
            /\ last[t].arg = Arg(query[t], analysis[t], sources[t])
            /\ pc[t] = "done" => result[t] = Returned(last[t].ret)

\* C9: on the data-gathering branch the synthesize call is always reached:
\* after a successful analyze the only failure is all providers failing on
\* synthesize.
C9_SynthesizeAlwaysReached ==
    \A t \in Tasks :
        (DataBranch(t) /\ pc[t] = "failed") =>
            /\ last[t].method = "synthesize_response"
            /\ result[t] = AllFailed(last[t].errors)

Called(t, client) == \E i \in DOMAIN log[t] : log[t][i] = Ev("client", client)
Threw(t, client) == \E i \in DOMAIN log[t] : log[t][i] = Ev("raised", client)

InSynthesize(t) ==
    pc[t] = "ring" /\ rc[t].method = "synthesize_response"

\* C10 as stated: when synthesize is called, no key of the sources holds a
\* failed fetch.
C10_FailedFetchKeyAbsent ==
    \A t \in Tasks :
        InSynthesize(t) =>
            \A k \in DOMAIN rc[t].arg.sources : rc[t].arg.sources[k].success

\* C10 amended: when synthesize is called, the key of a client call that
\* raised is absent (agriculture and soil both, if either raised); the
\* envelope a client returned is stored, and only the weather key can hold
\* success: false; once a client was called, process_query fails only in
\* the synthesize ring call.
C10_RaisedFetchKeyAbsent ==
    \A t \in Tasks :
        /\ InSynthesize(t) =>
              LET srcs == rc[t].arg.sources IN
              /\ Threw(t, "search") => "webSearch" \notin DOMAIN srcs
              /\ Threw(t, "get_weather_data") => "weather" \notin DOMAIN srcs
              /\ (Threw(t, "get_agricultural_data") \/ Threw(t, "get_soil_data")) =>
                    DOMAIN srcs \cap {"agriculture", "soil"} = {}
              /\ (Called(t, "search") /\ ~Threw(t, "search")) =>
                    "webSearch" \in DOMAIN srcs
              /\ (Called(t, "get_weather_data") /\ ~Threw(t, "get_weather_data")) =>
                    "weather" \in DOMAIN srcs
              /\ \A k \in DOMAIN srcs : ~srcs[k].success => k = "weather"
        /\ ( pc[t] = "failed"
             /\ \E i \in DOMAIN log[t] : log[t][i].ev = "client" ) =>
               last[t].method = "synthesize_response"

\* synthesize is called with a failed weather envelope stored and the web
\* search key absent after the search raised.
C10_Witness ==
    \E t \in Tasks :
        /\ InSynthesize(t)
        /\ Threw(t, "search") /\ "webSearch" \notin DOMAIN rc[t].arg.sources
        /\ "weather" \in DOMAIN rc[t].arg.sources
        /\ ~rc[t].arg.sources["weather"].success

\* Number of ring calls of method m the query of task t has made.
RingCalls(t, m) == Cardinality({i \in DOMAIN log[t] : log[t][i] = Ev("ring", m)})

\* C11: a ring call in which every provider failed ends process_query with
\* the all-providers-failed error carrying the per-provider causes; the
\* failed step is not retried (one ring call of that method, each provider
\* tried once) and nothing follows it; when the failed step is analyze, no
\* client, no script generator and no further ring call was invoked.
C11_AllFailedIsFatal ==
    \A t \in Tasks :
        (last[t].method # "none" /\ ~last[t].ok) =>
            /\ pc[t] = "failed"
            /\ result[t].outcome = "raised"
            /\ result[t].value = [kind |-> "AllAIModelsFailed", errors |-> last[t].errors]
            /\ Cardinality(Range(last[t].tried)) = Len(last[t].tried)
            /\ RingCalls(t, last[t].method) = 1
            /\ log[t][Len(log[t])] = Ev("ring", last[t].method)
            /\ last[t].method = "analyze_query" =>
                  /\ log[t] = << Ev("ring", "analyze_query") >>
                  /\ analysis[t] = NoAnalysis
                  /\ sources[t] = NoSources

\* Both providers of a ring failed on synthesize after a search was made.
C11_Witness ==
    \E t \in Tasks :
        /\ last[t].method = "synthesize_response" /\ ~last[t].ok
        /\ Len(last[t].errors) = 2 /\ Called(t, "search")
        /\ pc[t] = "failed"

\* C12: process_query ends either by returning an answer or by raising the
\* all-providers-failed error; no other error escapes.
C12_AnswerOrAllFailedOnly ==
    \A t \in Tasks :
        pc[t] \in {"done", "failed"} =>
            \/ result[t].outcome = "returned"
            \/ /\ result[t].outcome = "raised"
               /\ result[t].value.kind = "AllAIModelsFailed"

\* C13: when the primary is a provider that fails on every capability and
\* every other provider invoked for the query worked, process_query returns
\* an answer, the secondary is the current provider and at position 0, and
\* the primary was invoked once.
C13_FallbackServesQuery ==
    \A t \in Tasks :
        ( /\ pc[t] \in {"done", "failed"}
          /\ Len(calls[t]) >= 2
          /\ calls[t][1].name \in mocked /\ ~calls[t][1].ok
          /\ \A i \in 2..Len(calls[t]) : calls[t][i].ok ) =>
            /\ pc[t] = "done"
            /\ result[t].outcome = "returned"
            /\ ai_name = calls[t][2].name
            /\ ai_models[1] = calls[t][2].name
            /\ Cardinality({i \in DOMAIN calls[t] :
                              calls[t][i].name = calls[t][1].name}) = 1

\* C14: every value a provider's analyze step returns is a mapping, and when
\* it is not the model's own object it is the default analysis of the query,
\* with at most 5 searchKeywords.
C14_AnalysisIsMapping ==
    \A t \in Tasks :
        (last[t].ok /\ last[t].method = "analyze_query") =>
            /\ IsMapping(last[t].ret.body)
            /\ last[t].ret.cause # "model" =>
                  /\ last[t].ret.body = DefaultAnalysis(query[t])
                  /\ Len(last[t].ret.body.searchKeywords.items) <= 5

\* C15: with needsCodeGeneration set, the PyQGIS case runs the script
\* generator, returns the templated message and makes no ring call after
\* analyze; any other code request makes exactly one answer_directly ring
\* call and returns its result.
C15_CodeGenerationBranch ==
    \A t \in Tasks :
        (IsMapping(analysis[t]) /\ analysis[t].needsCodeGeneration) =>
            IF \/ analysis[t].codeType = "pyqgis"
               \/ Contains(query[t], "pyqgis") \/ Contains(query[t], "satellite")
            THEN /\ log[t] = << Ev("ring", "analyze_query"), Ev("script", "save_script") >>
                 /\ pc[t] = "done"
                 /\ result[t] = Returned(ScriptMessage)
            ELSE /\ log[t] = << Ev("ring", "analyze_query"), Ev("ring", "answer_directly") >>
                 /\ pc[t] \in {"ring", "done", "failed"}
                 /\ sources[t] = NoSources
                 /\ pc[t] = "done" =>
                       /\ last[t].method = "answer_directly"
                       /\ result[t] = Returned(last[t].ret)

\* C16: with needsWeatherData set and the location null or empty, the weather
\* client is never called and no weather key is stored; once the web step is
\* over the query is in its synthesize call, and fails only if every
\* provider fails there.
C16_WeatherSkippedWithoutLocation ==
    \A t \in Tasks :
        ( /\ DataBranch(t)
          /\ analysis[t].needsWeatherData
          /\ analysis[t].location \in {"null", ""} ) =>
            /\ ~Called(t, "get_weather_data")
            /\ "weather" \notin DOMAIN sources[t]
            /\ pc[t] \notin {"weather", "agri"}
            /\ (~analysis[t].needsWebSearch \/ Called(t, "search")) =>
                  /\ log[t][Len(log[t])] = Ev("ring", "synthesize_response")
                  /\ pc[t] = "failed" =>
                        /\ last[t].method = "synthesize_response"
                        /\ result[t].value.kind = "AllAIModelsFailed"

\* A query that wanted weather for an empty location got its answer from
\* synthesize.
C16_Witness ==
    \E t \in Tasks :
        /\ DataBranch(t)
        /\ analysis[t].needsWeatherData /\ analysis[t].location = ""
        /\ pc[t] = "done" /\ last[t].method = "synthesize_response"

\* C17: in every aggregate passed to synthesize the agriculture key is
\* present exactly when the soil key is; with needsAgriculturalData set and
\* a location present the agriculture client was called, the soil client
\* after it, and both results are stored (unless a call raised); otherwise
\* neither client was called.
C17_AgricultureAndSoilTogether ==
    \A t \in Tasks :
        InSynthesize(t) =>
            LET srcs == rc[t].arg.sources
                a == rc[t].arg.analysis
            IN /\ ("agriculture" \in DOMAIN srcs) <=> ("soil" \in DOMAIN srcs)
               /\ IF a.needsAgriculturalData /\ a.location \notin {"null", ""}
                  THEN /\ Called(t, "get_agricultural_data")
                       /\ ~Threw(t, "get_agricultural_data") => Called(t, "get_soil_data")
                       /\ (~Threw(t, "get_agricultural_data") /\ ~Threw(t, "get_soil_data"))
                             => {"agriculture", "soil"} \subseteq DOMAIN srcs
                  ELSE /\ ~Called(t, "get_agricultural_data")
                       /\ ~Called(t, "get_soil_data")
                       /\ DOMAIN srcs \cap {"agriculture", "soil"} = {}

\* synthesize is called with live agriculture data and the soil data stored.
C17_Witness ==
    \E t \in Tasks :
        /\ InSynthesize(t)
        /\ {"agriculture", "soil"} \subseteq DOMAIN rc[t].arg.sources
        /\ rc[t].arg.sources["agriculture"].source = "agriculture-api"
        /\ Called(t, "get_soil_data")

\* C18: whenever no promotion is between its pop and its insert, the ring
\* holds exactly the providers it was constructed with, each once.
C18_RingMembershipFixed ==
    (built = "ok" /\ \A t \in Tasks : rc[t].at # "insert") =>
        /\ Range(ai_models) = environ.keys \cap environ.constructs
        /\ Len(ai_models) = Cardinality(environ.keys \cap environ.constructs)

\* Two promotions, with failed calls before them, reversed a ring of three.
C18_Witness ==
    /\ ai_models = << "OpenRouter", "Groq", "Gemini" >>
    /\ \A t \in Tasks : rc[t].at = "none"
    /\ \E t \in Tasks : last[t].ok /\ Len(last[t].errors) = 2

\* C19: a construction that found no provider fails.
C19_NoProviderConstructionFails ==
    (built \in {"ok", "raised"} /\ ai_models = <<>>) => built = "raised"

\* Position of a provider in the priority order.
PriorityIndex(name) ==
    CHOOSE j \in 1..Len(ProviderPriority) : ProviderPriority[j] = name

\* C20: after construction the ring holds exactly the providers whose key is
\* set and whose adapter constructed, each once, in priority order; if it
\* is not empty the construction succeeded and the current provider is the
\* first entry.
C20_RingBuiltInPriorityOrder ==
    built \in {"ok", "raised"} =>
        /\ Range(ai_models) = {n \in ProviderNames :
                                 n \in environ.keys /\ n \in environ.constructs}
        /\ \A i, j \in DOMAIN ai_models :
              i < j => PriorityIndex(ai_models[i]) < PriorityIndex(ai_models[j])
        /\ ai_models # <<>> =>
              /\ built = "ok"
              /\ ai_name = ai_models[1]
              /\ current_ai = AdapterOf(ai_models[1])

\* Gemini's key is set but its adapter failed to construct: the ring is Groq,
\* OpenRouter and Groq is the current provider.
C20_Witness ==
    /\ built = "ok"
    /\ "Gemini" \in environ.keys
    /\ ai_models = << "Groq", "OpenRouter" >>
    /\ ai_name = "Groq"

\* Position of a tier in the order search tries them.
TierIndex(w) == CHOOSE j \in 1..Len(WebTiers) : WebTiers[j] = w

\* C21: search invokes tiers in the order Poe, DuckDuckGo, Wikipedia, only
\* configured ones, and a tier only after every earlier tier was unconfigured
\* or invoked without result; the first tier that gives a result is the
\* source of what is returned and no tier is invoked after it; with no
\* result every configured tier was invoked and the source is the mock.
C21_TiersInOrderFirstWins ==
    probe.fn = "search" =>
        LET inv == probe.out.requests
            e == probe.out.envelope
        IN /\ \A i, j \in DOMAIN inv : i < j => TierIndex(inv[i]) < TierIndex(inv[j])
           /\ Range(inv) \subseteq probe.cfg
           /\ \A i \in DOMAIN inv : \A k \in 1..(TierIndex(inv[i]) - 1) :
                 \/ WebTiers[k] \notin probe.cfg
                 \/ WebTiers[k] \in Range(inv) /\ WebTiers[k] \notin probe.yields
           /\ IF probe.cfg \cap probe.yields # {}
              THEN /\ inv # <<>>
                   /\ e.source = inv[Len(inv)]
                   /\ e.source \in probe.yields
                   /\ \A i \in 1..(Len(inv) - 1) : inv[i] \notin probe.yields
              ELSE /\ e.source = "mock"
                   /\ Range(inv) = probe.cfg

\* All tiers configured, Poe gave nothing, DuckDuckGo answered: Wikipedia
\* was not asked.
C21_Witness ==
    /\ probe.fn = "search"
    /\ probe.cfg = Range(WebTiers)
    /\ probe.yields = {"duckduckgo", "wikipedia"}
    /\ probe.out.requests = << "poe", "duckduckgo" >>
    /\ probe.out.envelope.source = "duckduckgo"

\* C22: search returns, never raises, always with success: true; when no
\* configured tier gives a result it returns the mock payload, source 'mock'
\* and mock: true; the mock flag is set on the mock payload only.
C22_SearchAlwaysSucceeds ==
    probe.fn = "search" =>
        LET e == probe.out.envelope
        IN /\ ~e.raised
           /\ e.success
           /\ (probe.cfg \cap probe.yields = {}) => (e.source = "mock" /\ e.mock)
           /\ e.mock <=> e.source = "mock"

\* Every tier is configured and none gives a result: the mock payload.
C22_Witness ==
    /\ probe.fn = "search"
    /\ probe.cfg = Range(WebTiers) /\ probe.yields = {}
    /\ Len(probe.out.requests) = 3
    /\ probe.out.envelope.mock

\* C23: get_weather_data returns, never raises; it gives success: true only
\* when geocoding found the place and the forecast is complete, and otherwise
\* success: false with an error and a message; each API is asked at most
\* once, the forecast only after a successful geocoding.
C23_WeatherFailsSoft ==
    probe.fn = "get_weather_data" =>
        LET o == probe.out
        IN /\ ~o.envelope.raised
           /\ o.envelope.success <=>
                 (probe.geocoding = "found" /\ probe.forecast = "complete")
           /\ ~o.envelope.success => (o.error # "none" /\ o.message # <<>>)
           /\ o.requests \in {<<"geocoding">>, <<"geocoding", "forecast">>}
           /\ probe.geocoding # "found" => o.requests = <<"geocoding">>

\* The place was found but the forecast payload lacks a field.
C23_Witness ==
    /\ probe.fn = "get_weather_data"
    /\ probe.geocoding = "found" /\ probe.forecast = "incomplete"
    /\ ~probe.out.envelope.success
    /\ probe.out.error = "KeyError"

\* C24: get_agricultural_data returns, never raises, always with success:
\* true; unconfigured it returns the mock payload without a request;
\* configured, a failed request or an unparseable payload gives that same
\* mock payload, flagged mock: true.
C24_AgricultureFallsBackToMock ==
    probe.fn = "get_agricultural_data" =>
        LET o == probe.out
        IN /\ ~o.envelope.raised
           /\ o.envelope.success
           /\ ~probe.configured =>
                 (o.requests = <<>> /\ o.envelope.mock /\ o.envelope.source = "mock")
           /\ (probe.configured /\ probe.reply \in {"request_error", "http_error", "unparseable"}) =>
                 (o.envelope.mock /\ o.envelope.source = "mock")

\* The configured API answered with an HTTP error status.
C24_Witness ==
    /\ probe.fn = "get_agricultural_data"
    /\ probe.configured /\ probe.reply = "http_error"
    /\ probe.out.requests = << "crop-data" >>
    /\ probe.out.envelope.mock

\* C26: synthesize_response builds its context from any sources mapping,
\* with keys missing or entries holding success: false, without raising; it
\* uses only entries with success: true; and it frames the prompt as
\* general knowledge exactly when none of webSearch, weather and agriculture
\* is present with success: true.
C26_SynthesisUsesSuccessfulSources ==
    probe.fn = "synthesize_response" =>
        LET srcs == probe.sources
            o == probe.out
        IN /\ ~o.raised
           /\ \A k \in o.used : k \in DOMAIN srcs /\ srcs[k].success
           /\ o.framing = "general_knowledge" <=>
                 \A k \in {"webSearch", "weather", "agriculture"} :
                     k \notin DOMAIN srcs \/ ~srcs[k].success

\* No webSearch key, a failed agriculture entry, a successful weather entry:
\* only the weather is used.
C26_Witness ==
    /\ probe.fn = "synthesize_response"
    /\ DOMAIN probe.sources = {"weather", "agriculture"}
    /\ probe.sources["weather"].success
    /\ ~probe.sources["agriculture"].success
    /\ probe.out.used = {"weather"}
    /\ probe.out.framing = "gathered"

\* C25: once the 120 s ceiling has passed for a request, the caller has its
\* timeout response (504); it does not wait for the in-flight query to end.
C25_TimeoutAnswersAtCeiling ==
    \A t \in Tasks : http[t].timedout => http[t].status = 504

\* C27: also with other requests promoting concurrently, a ring call that
\* ends with "All AI models failed" attempted every provider of the ring
\* exactly once: as many messages as providers, one per provider, none
\* tried twice and none left out.
C27_FailedCallTriedEachOnce ==
    \A t \in Tasks :
        (pc[t] = "failed" /\ last[t].method # "none" /\ ~last[t].ok) =>
            /\ Len(last[t].errors) = Len(ProviderPriority)
            /\ Len(last[t].tried) = Len(ProviderPriority)
            /\ Range(last[t].tried) = ProviderNames
            /\ {last[t].errors[i].name : i \in DOMAIN last[t].errors} = ProviderNames

\* C28: a ring call that returned from position 0, and a ring call in which
\* every provider failed, end with the ring order, ai_name and current_ai
\* they began with.
C28_NoPromotionLeavesRing ==
    \A t \in Tasks :
        (last[t].method # "none" /\ (~last[t].ok \/ last[t].idx = 0)) =>
            /\ last[t].exit = last[t].entry
            /\ last[t].exitName = last[t].entryName
            /\ last[t].exitAI = last[t].entryAI

\* A ring call over all three providers ended with every one failed, after
\* an earlier promotion had changed the ring from its initial order.
C28_Witness ==
    \E t \in Tasks :
        /\ pc[t] = "failed"
        /\ ~last[t].ok
        /\ Len(last[t].errors) = Len(ProviderPriority)
        /\ last[t].entry # ProviderPriority
        /\ last[t].exit = last[t].entry

\* C29: the ai_model of a 200 response whose text a ring call returned is
\* the provider that ring call got it from, also with requests served
\* concurrently.
C29_ReportedModelProducedResponse ==
    \A t \in Tasks :
        (http[t].status = 200 /\ result[t].outcome = "returned"
            /\ result[t].value.kind \in {"text", "apology"}) =>
            http[t].ai_model = result[t].value.by

\* C30: whatever the interleaving of first requests, at most one
\* Orchestrator is constructed and every request that is given an instance
\* is given the same one.
C30_OneOrchestrator ==
    /\ Cardinality(boot.made) <= 1
    /\ \A t, u \in Tasks :
         (boot.got[t] # 0 /\ boot.got[u] # 0) => boot.got[t] = boot.got[u]

\* C31: the aggregate a synthesize call is given is this query's own (its
\* query, its analysis, sources filled by this query's client calls only);
\* its sources hold no key besides webSearch, weather, agriculture, soil;
\* webSearch is present only if needsWebSearch was set, weather only if
\* needsWeatherData was set and a location present, agriculture and soil
\* only if needsAgriculturalData was set and a location present.
C31_AggregateKeysFollowAnalysis ==
    \A t \in Tasks :
        (pc[t] = "ring" /\ rc[t].method = "synthesize_response") =>
            LET a == rc[t].arg.analysis
                s == rc[t].arg.sources
                located == a.location \notin {"null", ""}
            IN /\ rc[t].arg.query = query[t]
               /\ a = analysis[t]
               /\ DOMAIN s \subseteq {"webSearch", "weather", "agriculture", "soil"}
               /\ "webSearch" \in DOMAIN s =>
                     (a.needsWebSearch /\ Called(t, "search"))
               /\ "weather" \in DOMAIN s =>
                     (a.needsWeatherData /\ located /\ Called(t, "get_weather_data"))
               /\ "agriculture" \in DOMAIN s =>
                     (a.needsAgriculturalData /\ located
                        /\ Called(t, "get_agricultural_data"))
               /\ "soil" \in DOMAIN s =>
                     (a.needsAgriculturalData /\ located /\ Called(t, "get_soil_data"))

\* Synthesize is called with weather, agriculture and soil gathered and no
\* webSearch key, the search not having been asked for.
C31_Witness ==
    \E t \in Tasks :
        /\ pc[t] = "ring" /\ rc[t].method = "synthesize_response"
        /\ ~rc[t].arg.analysis.needsWebSearch
        /\ DOMAIN rc[t].arg.sources = {"weather", "agriculture", "soil"}

\* C32: when the analysis sets needsCodeGeneration, no data-source client
\* is invoked and no synthesize call is made, whatever the other needs*
\* flags say.
C32_CodeGenerationSkipsData ==
    \A t \in Tasks :
        (IsMapping(analysis[t]) /\ analysis[t].needsCodeGeneration) =>
            /\ pc[t] \notin {"web", "weather", "agri"}
            /\ sources[t] = NoSources
            /\ \A i \in DOMAIN log[t] :
                 /\ log[t][i].ev \notin {"client", "raised"}
                 /\ log[t][i] # Ev("ring", "synthesize_response")

\* A code request that also set the three data flags was answered directly.
C32_Witness ==
    \E t \in Tasks :
        /\ IsMapping(analysis[t])
        /\ analysis[t].needsCodeGeneration
        /\ analysis[t].needsWebSearch
        /\ analysis[t].needsWeatherData
        /\ analysis[t].needsAgriculturalData
        /\ pc[t] = "done"
        /\ result[t].value.kind = "text"
        /\ result[t].value.method = "answer_directly"

\* C33: in the PyQGIS branch, when the script is not generated and saved
\* (the templated message is not what process_query returns), process_query
\* has failed with the error of save_script, nothing was called after the
\* script step, and ring and labels are as the analyze call left them.
C33_ScriptFailureIsFatal ==
    \A t \in Tasks :
        ( /\ \E i \in DOMAIN log[t] : log[t][i] = Ev("script", "save_script")
          /\ result[t] # Returned(ScriptMessage) ) =>
            /\ pc[t] = "failed"
            /\ result[t].outcome = "raised"
            /\ result[t].value.kind = "ScriptSaveFailed"
            /\ log[t] = << Ev("ring", "analyze_query"), Ev("script", "save_script") >>
            /\ last[t].method = "analyze_query" /\ last[t].ok
            /\ ai_models = last[t].exit
            /\ ai_name = last[t].exitName
            /\ current_ai = last[t].exitAI

\* The analyze call promoted a fallback provider, then save_script raised.
C33_Witness ==
    \E t \in Tasks :
        /\ pc[t] = "failed"
        /\ result[t].outcome = "raised"
        /\ result[t].value.kind = "ScriptSaveFailed"
        /\ last[t].idx > 0
        /\ ai_models = last[t].exit
        /\ ai_models # last[t].entry

\* C34 as stated: with the default analysis no weather, agriculture or soil
\* client is called, and whenever it sets needsWeatherData or
\* needsAgriculturalData the query ends in a synthesize call, never in a
\* direct answer or another branch.
C34_DefaultAnalysisSynthesizes ==
    \A t \in Tasks :
        analysis[t] = DefaultAnalysis(query[t]) =>
            /\ ~Called(t, "get_weather_data")
            /\ ~Called(t, "get_agricultural_data")
            /\ ~Called(t, "get_soil_data")
            /\ ( /\ analysis[t].needsWeatherData \/ analysis[t].needsAgriculturalData
                 /\ pc[t] \in {"done", "failed"} ) =>
                    /\ RingCalls(t, "synthesize_response") = 1
                    /\ RingCalls(t, "answer_directly") = 0

\* C34 amended: with the default analysis no weather, agriculture or soil
\* client is called; when it sets needsWeatherData or needsAgriculturalData
\* and the query matched no code-generation keyword, the query ends in one
\* synthesize call whose aggregate lacks weather, agriculture and soil, and
\* no direct answer is made.
C34_DefaultAnalysisSynthesizesUnlessCode ==
    \A t \in Tasks :
        analysis[t] = DefaultAnalysis(query[t]) =>
            /\ ~Called(t, "get_weather_data")
            /\ ~Called(t, "get_agricultural_data")
            /\ ~Called(t, "get_soil_data")
            /\ pc[t] \notin {"weather", "agri"}
            /\ ( /\ analysis[t].needsWeatherData \/ analysis[t].needsAgriculturalData
                 /\ ~analysis[t].needsCodeGeneration
                 /\ pc[t] \in {"done", "failed"} ) =>
                    /\ RingCalls(t, "synthesize_response") = 1
                    /\ RingCalls(t, "answer_directly") = 0
                    /\ last[t].method = "synthesize_response"
                    /\ DOMAIN last[t].arg.sources \subseteq {"webSearch"}

\* The weather question got the default analysis and was answered by a
\* synthesize call on an aggregate without sources.
C34_Witness ==
    \E t \in Tasks :
        /\ analysis[t] = DefaultAnalysis(query[t])
        /\ analysis[t].needsWeatherData
        /\ ~analysis[t].needsCodeGeneration
        /\ pc[t] = "done"
        /\ last[t].method = "synthesize_response"
        /\ last[t].arg.sources = NoSources

\* C35: on an empty ring a query invokes no provider and no client and its
\* analyze call, the only ring call it makes, fails with the all-failed
\* error carrying no per-provider message.
C35_EmptyRingFailsAtAnalyze ==
    \A t \in Tasks :
        (ai_models = <<>> /\ pc[t] # "idle") =>
            /\ pc[t] \in {"ring", "failed"}
            /\ calls[t] = <<>>
            /\ log[t] = << Ev("ring", "analyze_query") >>
            /\ pc[t] = "ring" => (rc[t].method = "analyze_query" /\ rc[t].tried = <<>>)
            /\ pc[t] = "failed" =>
                  /\ result[t].outcome = "raised"
                  /\ result[t].value.kind = "AllAIModelsFailed"
                  /\ result[t].value.errors = <<>>
                  /\ last[t].method = "analyze_query"

\* A query on the empty ring has failed.
C35_Witness ==
    \E t \in Tasks :
        /\ ai_models = <<>>
        /\ pc[t] = "failed"
        /\ result[t].value.kind = "AllAIModelsFailed"
        /\ result[t].value.errors = <<>>

\* What a series contributes at entry i: its value where it has one, else 0.
Contribution(p, name, i) ==
    IF p.shapes[name] = "full" \/ (p.shapes[name] = "short" /\ i < p.n)
    THEN SeriesValue(name, i) ELSE 0

\* C36: get_weather_data never reads a series past its end: whatever
\* series of the hourly and daily objects are missing or shorter than the
\* time array, the call returns success: true with one entry per time
\* index (24 hours, 7 days at most), a missing value counted as 0.
C36_SeriesNeverOverrun ==
    probe.fn = "forecast" =>
        LET h == probe.hourly
            d == probe.daily
            o == probe.out
        IN /\ o.error \notin {"IndexError", "KeyError"}
           /\ o.envelope.success
           /\ Len(o.hourly) = (IF h.n < HourlyWindow THEN h.n ELSE HourlyWindow)
           /\ \A i \in DOMAIN o.hourly : \A name \in HourlyNames :
                 o.hourly[i][name] = Contribution(h, name, i)
           /\ \A i \in DOMAIN o.daily : \A name \in DailyNames :
                 o.daily[i][name] = Contribution(d, name, i)

\* The first n values of a series, missing ones counted as 0, summed.
RECURSIVE Expected(_, _, _)
Expected(p, name, n) ==
    IF n = 0 THEN 0 ELSE Contribution(p, name, n) + Expected(p, name, n - 1)

\* C37: when the hourly forecast has k entries (the time array and the
\* temperature, weather code and humidity series), get_weather_data returns
\* success with k hourly entries if k < 24 and 24 otherwise, and the today
\* and next-24h totals of precipitation, rain and showers are each the sum
\* of the values available among exactly those entries.
C37_TotalsOverAvailableHours ==
    ( /\ probe.fn = "forecast"
      /\ \A k \in DOMAIN HourlyRequired :
            probe.hourly.shapes[HourlyRequired[k]] = "full" ) =>
        LET h == probe.hourly
            o == probe.out
            count == IF h.n < HourlyWindow THEN h.n ELSE HourlyWindow
        IN /\ o.envelope.success /\ ~o.envelope.raised
           /\ Len(o.hourly) = count
           /\ \A name \in {"precipitation", "rain", "showers"} :
                 /\ o.today[name] = Expected(h, name, count)
                 /\ o.next_24h[name] = Expected(h, name, count)

\* 23 hourly entries with all series complete: the precipitation total is
\* 1 + 2 + ... + 23.
C37_Witness ==
    /\ probe.fn = "forecast"
    /\ probe.hourly.n = HourlyWindow - 1
    /\ \A name \in HourlyNames : probe.hourly.shapes[name] = "full"
    /\ Len(probe.out.hourly) = HourlyWindow - 1
    /\ probe.out.today["precipitation"] = ((HourlyWindow - 1) * HourlyWindow) \div 2
    /\ probe.out.next_24h["rain"] = (HourlyWindow - 1) * HourlyWindow

\* C38: the tier that serves a search made with keywords searched with the
\* plain query followed by the first keywords, three at most; without
\* keywords, with the plain query.
C38_ServingTierUsesKeywords ==
    probe.fn = "searched" =>
        LET kw == probe.keywords
        IN probe.used = <<0>> \o SubSeq(kw, 1, IF Len(kw) < 3 THEN Len(kw) ELSE 3)

\* C39: the extractor returns the first well-formed JSON object of the
\* text, whatever prose, fences or brace groups surround or follow it, and
\* an empty or None result when the text holds no object it can recover.
C39_FirstObjectExtracted ==
    probe.fn = "extracted" =>
        LET text == probe.text
            objects == {i \in DOMAIN text : text[i].kind = "object"}
        IN /\ objects # {} =>
                 LET first == CHOOSE i \in objects : \A j \in objects : i <= j
                 IN probe.out.ty = "dict" /\ probe.out.val = text[first].body
           /\ (\A i \in DOMAIN text : text[i].kind \notin {"object", "commas"}) =>
                 probe.out.ty \in {"falsy", "None"}

====
